---- MODULE Spec2Model ----
(***************************************************************************)
(* Poolanoid: the collision-driven destruction engine.                     *)
(*                                                                         *)
(* WallManager (src/src/entities/Ball.js, lines 157-456), the game         *)
(* controller PoolGame (src/src/core/PoolGame.js) and the sub-step loop    *)
(* of PhysicsWorld.update (src/src/physics/PhysicsWorld.js).               *)
(*                                                                         *)
(* JavaScript is single threaded: a frame (animate) runs to completion,    *)
(* and timers (setTimeout) run only between frames.  Inside a frame the    *)
(* physics engine calls the balls' collide listeners while World.step is   *)
(* executing.  pc records where the frame is:                              *)
(*   "idle"    between frames (timers and input handlers may run)          *)
(*   "loop"    at the test of the while loop of PhysicsWorld.update        *)
(*   "instep"  inside World.step (collide listeners run here)              *)
(*   "between" World.step has returned, onSubstep has not run yet          *)
(***************************************************************************)
EXTENDS Integers, Sequences, FiniteSets, TLC

\* ------------------------------------------------------------------ bounds
NumWalls == 2          \* walls of one population (the code: 10 + 4 per level)
MaxPops == 2           \* populations created in one run (createWalls calls)
MaxSubsteps == 2       \* sub-steps of one frame (the code: MAX_SUBSTEPS = 30)
MaxShots == 1          \* shots taken in one run
MaxExtraBalls == 1     \* extra balls alive at once
MaxFrames == 2         \* frames (calls of animate while playing) in one run
NumLayoutWalls == 3    \* walls of a layout whose bombs are detonated directly
MaxNotified == 8       \* wallDestroyed notifications after one shot
MaxTicks == 6          \* clock ticks of a run of the combo timer
MaxUpdates == 3        \* calls of PhysicsWorld.update in one run
MaxSpawnNow == 32      \* ms: no multi-ball wall is destroyed after this time
MaxPreShot == 3        \* wallDestroyed notifications before the shot
MaxAttempts == 2       \* attempts of the placement loop (the code: maxAttempts = 20)
MaxLevel == 2          \* levels whose full populations are created
MaxTouched == 3        \* walls of a full population that are hit or detached
MaxLoopSteps == 4      \* calls of physics.update by the animation loop
MaxRaf == 2            \* callbacks of requestAnimationFrame scheduled at once
OverWalls == 5         \* walls of a population in the runs to a game over
MaxOverNow == 640      \* ms of play in the runs to a game over
MaxOverShots == 2      \* shots fired in the runs to a game over
MaxMaterialPops == 4    \* populations created in a run of createWalls and clearAll
MaxHitNow == 96        \* ms of a run in which balls reach walls and extra balls roll

\* ------------------------------------------------------- program constants
BASE_SHOTS == 5
EXTRA_SHOTS_PER_LEVEL == 0
MULTI_BALL_COUNT == 2
EXTRA_SHOT_SHOTS == 1
BALL_SLEEP_SPEED_LIMIT == 10   \* 0.1, in units of 0.01 per second
MIN_SPAWN_SPEED == 300         \* 3, in units of 0.01 per second
HalfThickness == 1             \* WALL_THICKNESS / 2, the unit of length
STAGGER_DELAY == 50            \* ms, _triggerBomb
SETTLE_DELAY == 500            \* ms, CONFIG.COMBO
NEXT_LEVEL_DELAY == 1000       \* ms, CONFIG.EFFECTS
MAX_SUBSTEPS == 30             \* CONFIG.PHYSICS
BULLET_SAFE_DISTANCE == 4      \* 0.04, in units of 0.01
SPEED_EPSILON == 10            \* 0.1, in units of 0.01 per second
TimeUnit == 9600               \* time units in a second, for update
MULTI_BALL_TIMEOUT == 8000     \* ms, CONFIG.MULTI_BALL.TIMEOUT
BALL_SLEEP_TIME_LIMIT == 500   \* ms (0.5 s), CONFIG.PHYSICS
BALL_SPAWN_CLEARANCE == 40     \* 0.5, in half wall thicknesses (0.0125)
BASE_WALL_COUNT == 10
WALLS_PER_LEVEL == 4

\* ------------------------------------------------------------ input domains
\* Every type of the spawn tables (the tier of levels 7+ holds them all).
WallTypes == {"normal", "extraBounce", "lowBounce", "sticky",
              "extraShot", "bomb", "multiBall"}
PowerUpTypes == {"extraShot", "bomb", "multiBall"}
\* Layouts of a population: the walls lie on a line, all with yaw 0 and
\* half length HalfLength, their centres Spacing apart (in half thicknesses).
\* At spacing 3 neighbours overlap and others do not; at 5 no two overlap.
HalfLengths == {2}
Spacings == {3, 5}
\* Planar speeds the physics engine leaves a ball with, in 0.01 per second.
SolverSpeeds == {0, 1280}
\* Planar speed a shot gives the ball.
ShotSpeeds == {1280}

WallIds == 1..(NumWalls * MaxPops)
NoWall == [type |-> "none", x |-> 0, z |-> 0, rot |-> 0, halfLength |-> 0]

VARIABLES
    \* WallManager
    walls,              \* this.walls: the active walls (array order = id order)
    removing,           \* the walls whose removing flag is set
    wallRemovalQueue,   \* this.wallRemovalQueue
    removedBodies,      \* this.removedBodies (body ids; body id = wall id)
    wallObj,            \* the wall objects: type and yaw
    staggerTimers,      \* pending setTimeout callbacks of _triggerBomb
    pops,               \* populations created so far
    \* PhysicsWorld
    worldBodies,        \* the wall bodies in the CANNON world
    steps,              \* the local steps of update
    contacts,           \* (ball, body) pairs whose collide event fired this step
    pc,
    \* PoolGame
    isPlaying, level, score, combo, comboTimer, shotsRemaining,
    ballSpeed,          \* planar speed of the main ball
    extraBalls,         \* this.extraBalls: sequence of [speed, spawnTime]
    nextLevelTimers,    \* pending setTimeout callbacks of nextLevel
    shotsFired,
    frames,             \* frames run so far
    lastCall,           \* the last direct call of a WallManager method
    \* wall-clock time and the combo settle timer
    now,                \* the wall clock, in ms
    comboDue,           \* when the pending combo timer fires
    comboLog,           \* the notifications and finalizations since the shot
    \* PhysicsWorld.update
    accumulator,        \* this.accumulator
    lastFrameTime,      \* this.lastFrameTime
    stepDt,             \* the stepDt of the last loop iteration
    stepLog,            \* the time added to and stepped from the accumulator
    \* the ball on the table and the placement loop of createWalls
    ballPos,            \* ball.body.position, in the plane: <<x, z>>
    spawnAttempts,      \* per wall: attempts when its placement loop ended
    \* the animation loop of PoolGame and its session flags
    isContextLost,      \* this.isContextLost
    rafPending,         \* callbacks of requestAnimationFrame not yet run
    glLost,             \* the browser has lost the WebGL context
    criticalError,      \* handleCriticalError has run
    \* the deferred game over of animate
    isGameOver,         \* this.isGameOver
    ballSettledTime,    \* this.ballSettledTime, in additions of 1/60
    gameOverCalls,      \* calls of gameOver
    slowRun,            \* frames in a row that left the main ball slow
    staggerDue,         \* per pending stagger timer: when it is due
    \* InputManager
    isAiming,           \* this.isAiming
    activeTouchId,      \* this.activeTouchId (0: null)
    \* contact materials
    contactmaterials,   \* physics.world.contactmaterials
    wallContactMaterials, \* wm.wallContactMaterials
    materialIds,        \* the id the next ContactMaterial gets
    \* outbound notifications raised so far
    wallDestroyed,      \* per wall: calls of onWallRemoved
    powerUpTriggered,   \* per wall: calls of onPowerUp
    countChanged,       \* calls of onCountChanged
    allCleared          \* calls of onAllCleared

vars == <<walls, removing, wallRemovalQueue, removedBodies, wallObj,
          staggerTimers, pops, worldBodies, steps, contacts, pc,
          isPlaying, level, score, combo, comboTimer, shotsRemaining,
          ballSpeed, extraBalls, nextLevelTimers, shotsFired, frames,
          lastCall, now, comboDue, comboLog, accumulator, lastFrameTime,
          stepDt, stepLog, ballPos, spawnAttempts,
          isContextLost, rafPending, glLost, criticalError,
          isGameOver, ballSettledTime, gameOverCalls, slowRun, staggerDue,
          isAiming, activeTouchId,
          contactmaterials, wallContactMaterials, materialIds,
          wallDestroyed, powerUpTriggered, countChanged, allCleared>>

clockVars == <<now, comboDue, comboLog>>
stepperVars == <<accumulator, lastFrameTime, stepDt, stepLog>>
placeVars == <<ballPos, spawnAttempts>>
loopVars == <<isContextLost, rafPending, glLost, criticalError>>
overVars == <<isGameOver, ballSettledTime, gameOverCalls, slowRun, staggerDue>>
inputVars == <<isAiming, activeTouchId>>
materialVars == <<contactmaterials, wallContactMaterials, materialIds>>
\* the contact material of the ball and the table, added at construction
ballTableContact == [id |-> 0, behavior |-> "table", pop |-> 0]

sessionVars == <<loopVars, overVars, inputVars, materialVars>>

\* From the constructor of PoolGame: the flags are false and its call of
\* animate has left one callback of requestAnimationFrame scheduled.
SessionAtRest ==
    /\ isContextLost = FALSE
    /\ rafPending = 1
    /\ glLost = FALSE
    /\ criticalError = FALSE
    /\ isGameOver = FALSE
    /\ ballSettledTime = 0
    /\ gameOverCalls = 0
    /\ slowRun = 0
    /\ staggerDue = <<>>
    /\ isAiming = FALSE
    /\ activeTouchId = 0
    /\ contactmaterials = <<ballTableContact>>
    /\ wallContactMaterials = <<>>
    /\ materialIds = 1

\* The variables the handlers of WallManager and PoolGame change.
handlerVars ==
    <<walls, removing, wallRemovalQueue, removedBodies, worldBodies,
      staggerTimers, level, score, combo, comboTimer, shotsRemaining,
      ballSpeed, extraBalls, nextLevelTimers, wallDestroyed,
      powerUpTriggered, countChanged, allCleared>>

\* The part of the state the handlers of WallManager and PoolGame change,
\* as one record, so that a handler is an operator from state to state.
Cur ==
    [walls |-> walls, removing |-> removing, queue |-> wallRemovalQueue,
     removedBodies |-> removedBodies, world |-> worldBodies,
     timers |-> staggerTimers, level |-> level, score |-> score,
     combo |-> combo, comboTimer |-> comboTimer, shots |-> shotsRemaining,
     ballSpeed |-> ballSpeed, extraBalls |-> extraBalls,
     nextLevelTimers |-> nextLevelTimers, wallDestroyed |-> wallDestroyed,
     powerUpTriggered |-> powerUpTriggered, countChanged |-> countChanged,
     allCleared |-> allCleared,
     now |-> now]     \* Date.now(), which the handlers only read

Commit(s) ==
    /\ walls' = s.walls
    /\ removing' = s.removing
    /\ wallRemovalQueue' = s.queue
    /\ removedBodies' = s.removedBodies
    /\ worldBodies' = s.world
    /\ staggerTimers' = s.timers
    /\ level' = s.level
    /\ score' = s.score
    /\ combo' = s.combo
    /\ comboTimer' = s.comboTimer
    /\ shotsRemaining' = s.shots
    /\ ballSpeed' = s.ballSpeed
    /\ extraBalls' = s.extraBalls
    /\ nextLevelTimers' = s.nextLevelTimers
    /\ wallDestroyed' = s.wallDestroyed
    /\ powerUpTriggered' = s.powerUpTriggered
    /\ countChanged' = s.countChanged
    /\ allCleared' = s.allCleared

\* ----------------------------------------------------------------- helpers
Abs(x) == IF x < 0 THEN -x ELSE x
Max(a, b) == IF a > b THEN a ELSE b
Min(a, b) == IF a < b THEN a ELSE b

\* The ids of a set in increasing order: the iteration order of this.walls.
RECURSIVE SetToSeq(_)
SetToSeq(S) ==
    IF S = {} THEN <<>>
    ELSE LET m == CHOOSE x \in S : \A y \in S : x <= y
         IN <<m>> \o SetToSeq(S \ {m})

TypeOf(w) == wallObj[w].type
isPowerUp(w) == TypeOf(w) \in PowerUpTypes

\* CONFIG.SCORING.POINTS[type] || 0
Points(type) ==
    CASE type = "normal" -> 1
      [] type = "extraBounce" -> 1
      [] type = "lowBounce" -> 1
      [] type = "sticky" -> 4
      [] OTHER -> 0

\* ----------------------------------------------------------------- PoolGame
\* clearExtraBalls
clearExtraBalls(s) == [s EXCEPT !.extraBalls = <<>>]

\* the speed of a spawned ball without the floor
spawnSpeedUnfloored(mainSpeed) == (mainSpeed * 4) \div 5

\* spawnExtraBalls: count balls, each at max(speed * IMPULSE_FACTOR, 3).
spawnSpeed(mainSpeed) == Max((mainSpeed * 4) \div 5, MIN_SPAWN_SPEED)

spawnExtraBalls(s) ==
    LET room == MaxExtraBalls - Len(s.extraBalls)
        n == Min(MULTI_BALL_COUNT, Max(room, 0))
        new == [i \in 1..n |-> [speed |-> spawnSpeed(s.ballSpeed),
                                spawnTime |-> s.now]]
    IN [s EXCEPT !.extraBalls = @ \o new]

\* nextLevel
nextLevel(s) ==
    LET s1 == [s EXCEPT !.level = @ + 1]
        s2 == [s1 EXCEPT !.shots = BASE_SHOTS + (s1.level - 1) * EXTRA_SHOTS_PER_LEVEL,
                         !.ballSpeed = 0]
        s3 == clearExtraBalls(s2)
    IN [s3 EXCEPT !.nextLevelTimers = @ + 1]

\* scoreWall
scoreWall(s, type, powerUp) ==
    IF powerUp THEN s
    ELSE IF Points(type) = 0 THEN s
    ELSE [s EXCEPT !.score = @ + Points(type),
                   !.combo = @ + 1,
                   !.comboTimer = TRUE]

\* handlePowerUp
handlePowerUp(s, type) ==
    CASE type = "extraShot" -> [s EXCEPT !.shots = @ + EXTRA_SHOT_SHOTS]
      [] type = "multiBall" -> spawnExtraBalls(s)
      [] OTHER -> s

\* applyWallEffect on a planar speed
applyWallEffect(wallType, speed) ==
    CASE wallType = "sticky" -> 0
      [] wallType = "lowBounce" -> speed \div 4
      [] wallType = "extraBounce" -> (speed * 5) \div 4
      [] OTHER -> speed

\* The callbacks PoolGame installs on the WallManager.
onWallRemoved(s, w) ==
    scoreWall([s EXCEPT !.wallDestroyed[w] = @ + 1], TypeOf(w), isPowerUp(w))

onPowerUp(s, w) ==
    handlePowerUp([s EXCEPT !.powerUpTriggered[w] = @ + 1], TypeOf(w))

onCountChanged(s) == [s EXCEPT !.countChanged = @ + 1]

onAllCleared(s) == nextLevel([s EXCEPT !.allCleared = @ + 1])

\* -------------------------------------------------------------- WallManager
\* queueRemoval with none of its three guards
queueRemovalUnguarded(s, body) ==
    [s EXCEPT !.removing = @ \cup {body}, !.queue = Append(@, body)]

\* queueRemoval that detaches the wall at once, inside the callback
queueRemovalSync(s, body) ==
    IF body \in s.removedBodies \/ body \notin s.walls \/ body \in s.removing
    THEN s
    ELSE [s EXCEPT !.removing = @ \cup {body},
                   !.removedBodies = @ \cup {body},
                   !.world = @ \ {body},
                   !.walls = @ \ {body}]

\* queueRemoval(otherBody, impactPos)
queueRemoval(s, body) ==
    IF body \in s.removedBodies THEN s
    ELSE IF body \in s.walls /\ body \notin s.removing
         THEN [s EXCEPT !.removing = @ \cup {body},
                        !.queue = Append(@, body)]
         ELSE s

\* _detachWall without the test of removedBodies
detachWallUnguarded(s, w) ==
    [ok |-> TRUE,
     s |-> [s EXCEPT !.removedBodies = @ \cup {w},
                     !.world = @ \ {w},
                     !.walls = @ \ {w}]]

\* _detachWall(wall): the state after, and the value returned
detachWall(s, w) ==
    IF w \in s.removedBodies THEN [ok |-> FALSE, s |-> s]
    ELSE [ok |-> TRUE,
          s |-> [s EXCEPT !.removedBodies = @ \cup {w},
                          !.world = @ \ {w},
                          !.walls = @ \ {w}]]

\* _showRemoval(wall, impactPos)
showRemoval(s, w) ==
    LET s1 == onWallRemoved(s, w)
    IN IF isPowerUp(w) THEN onPowerUp(s1, w) ELSE s1

\* _xzAABB(body), for yaws that are multiples of a quarter turn
AbsCos(rot) == IF rot % 2 = 0 THEN 1 ELSE 0
AbsSin(rot) == IF rot % 2 = 0 THEN 0 ELSE 1

xzAABB(body) ==
    [hx |-> AbsCos(body.rot) * body.halfLength + AbsSin(body.rot) * HalfThickness,
     hz |-> AbsSin(body.rot) * body.halfLength + AbsCos(body.rot) * HalfThickness]

\* an overlap test that also accepts boxes that only touch
OverlapsClosed(bomb, wall) ==
    /\ Abs(bomb.x - wall.x) <= xzAABB(bomb).hx + xzAABB(wall).hx
    /\ Abs(bomb.z - wall.z) <= xzAABB(bomb).hz + xzAABB(wall).hz

\* an overlap test that measures with the bomb's extents on both sides
OverlapsOneSided(bomb, wall) ==
    /\ Abs(bomb.x - wall.x) < 2 * xzAABB(bomb).hx
    /\ Abs(bomb.z - wall.z) < 2 * xzAABB(bomb).hz

\* the test of _triggerBomb on two bodies
Overlaps(bomb, wall) ==
    /\ Abs(bomb.x - wall.x) < xzAABB(bomb).hx + xzAABB(wall).hx
    /\ Abs(bomb.z - wall.z) < xzAABB(bomb).hz + xzAABB(wall).hz

RECURSIVE detachAll(_, _)
detachAll(s, ws) ==
    IF ws = <<>> THEN s
    ELSE detachAll(detachWall(s, Head(ws)).s, Tail(ws))

\* _triggerBomb whose victims that are bombs sweep in their turn
triggerBombCascade(s, bomb) ==
    LET direct == {w \in s.walls : w \notin s.removing /\ Overlaps(wallObj[bomb], wallObj[w])}
        victims == direct \cup
            {w \in s.walls : w \notin s.removing /\ w # bomb /\
                \E v \in direct : TypeOf(v) = "bomb" /\ Overlaps(wallObj[v], wallObj[w])}
        s1 == [s EXCEPT !.removing = @ \cup victims]
        s2 == detachAll(s1, SetToSeq(victims))
        s3 == IF victims # {} THEN onCountChanged(s2) ELSE s2
        s4 == IF s3.walls = {} THEN onAllCleared(s3) ELSE s3
    IN [s4 EXCEPT !.timers = @ \cup victims]

\* _triggerBomb that leaves the detachment of the victims to their timers
triggerBombDeferred(s, bomb) ==
    LET victims == {w \in s.walls : w \notin s.removing /\ Overlaps(wallObj[bomb], wallObj[w])}
    IN [s EXCEPT !.removing = @ \cup victims, !.timers = @ \cup victims]

\* _triggerBomb(bombBody)
triggerBomb(s, bomb) ==
    LET victims == {w \in s.walls : w \notin s.removing /\ Overlaps(wallObj[bomb], wallObj[w])}
        s1 == [s EXCEPT !.removing = @ \cup victims]
        s2 == detachAll(s1, SetToSeq(victims))
        s3 == IF victims # {} THEN onCountChanged(s2) ELSE s2
        s4 == IF s3.walls = {} THEN onAllCleared(s3) ELSE s3
    IN [s4 EXCEPT !.timers = @ \cup victims]

\* _removeWall(wall, impactPos)
removeWall(s, w) ==
    LET d == detachWall(s, w)
    IN IF ~d.ok THEN s
       ELSE LET s1 == showRemoval(d.s, w)
                s2 == IF TypeOf(w) = "bomb" THEN triggerBomb(s1, w) ELSE s1
                s3 == onCountChanged(s2)
            IN IF s3.walls = {} THEN onAllCleared(s3) ELSE s3

RECURSIVE removeEach(_, _)
removeEach(s, batch) ==
    IF batch = <<>> THEN s
    ELSE removeEach(removeWall(s, Head(batch)), Tail(batch))

\* processRemovals that handles the first entry only
processFirstOnly(s) ==
    IF Len(s.queue) = 0 THEN s
    ELSE removeWall([s EXCEPT !.queue = Tail(@)], Head(s.queue))

\* processRemovals()
RECURSIVE processRemovals(_)
processRemovals(s) ==
    IF Len(s.queue) = 0 THEN s
    ELSE processRemovals(removeEach([s EXCEPT !.queue = <<>>], s.queue))

\* a between-step callback that does nothing
onSubstepSkipped(s) == s

\* The callback animate passes to physics.update as onSubstep.
onSubstep(s) == processRemovals(s)

\* a timer that stays armed after it has fired (setInterval)
staggerKept(timers, w) == timers

\* setTimeout: the callback of victim w runs once, and is then forgotten.
staggerFired(timers, w) == timers \ {w}

\* clear() that empties the lists but leaves the bodies in the world
clearListsOnly(s) ==
    [s EXCEPT !.walls = {},
              !.queue = <<>>,
              !.removedBodies = {}]

\* clear()
clear(s) ==
    [s EXCEPT !.world = @ \ s.walls,
              !.walls = {},
              !.queue = <<>>,
              !.removedBodies = {}]


\* createWalls(level, ballMaterial, ballPosition): clear(), then a new
\* population.  The new bodies get fresh ids.  objs gives each new wall its
\* type and yaw (Math.random in the code).  Wall objects of the discarded
\* population stay reachable only through pending stagger timers.
\* The notification counts of the wall objects that are still reachable.
Kept(count, timers) ==
    [w \in DOMAIN count |-> IF w \in timers THEN count[w] ELSE 0]

NewIds(p) == (p * NumWalls + 1)..((p + 1) * NumWalls)

\* createWalls that adds its walls to those that are there
createWallsOnTop(s, ids) ==
    [s EXCEPT !.walls = @ \cup ids,
              !.world = @ \cup ids,
              !.wallDestroyed = Kept(@, s.timers),
              !.powerUpTriggered = Kept(@, s.timers),
              !.countChanged = 0]

\* createWalls, ids being the bodies it makes
createWallsWith(s, ids) ==
    LET c == clear(s)
    IN [c EXCEPT !.walls = ids,
                 !.world = @ \cup ids,
                 !.removing = @ \cap s.timers,
                 !.wallDestroyed = Kept(@, s.timers),
                 !.powerUpTriggered = Kept(@, s.timers),
                 !.countChanged = 0]

createWalls(s, p) == createWallsWith(s, NewIds(p))

\* wallCount = BASE_WALL_COUNT + (level - 1) * WALLS_PER_LEVEL
wallCount(lv) == BASE_WALL_COUNT + (lv - 1) * WALLS_PER_LEVEL

Populations == [types : [1..NumWalls -> WallTypes], spacing : Spacings,
                halfLength : HalfLengths]

NewWallObj(p, pop) ==
    [w \in WallIds |->
        IF w \in NewIds(p)
        THEN [type |-> pop.types[w - p * NumWalls],
              x |-> pop.spacing * (w - p * NumWalls - 1), z |-> 0, rot |-> 0,
              halfLength |-> pop.halfLength]
        ELSE IF w \in staggerTimers THEN wallObj[w]
        ELSE NoWall]


\* CONFIG.COMBO.THRESHOLDS
THRESHOLDS ==
    <<[min |-> 3, points |-> 2, shots |-> 0],
      [min |-> 4, points |-> 5, shots |-> 1],
      [min |-> 6, points |-> 10, shots |-> 1],
      [min |-> 8, points |-> 20, shots |-> 2]>>

\* finalizeCombo that takes the first threshold reached, not the highest
finalizeComboFirstMatch(s) ==
    IF s.combo < 2 THEN [s EXCEPT !.combo = 0]
    ELSE LET hit == {i \in 1..Len(THRESHOLDS) : s.combo >= THRESHOLDS[i].min}
         IN IF hit = {} THEN [s EXCEPT !.combo = 0]
            ELSE LET i == CHOOSE k \in hit : \A j \in hit : k <= j
                 IN [s EXCEPT !.score = @ + THRESHOLDS[i].points,
                              !.shots = @ + THRESHOLDS[i].shots,
                              !.combo = 0]

\* finalizeCombo
finalizeCombo(s) ==
    IF s.combo < 2 THEN [s EXCEPT !.combo = 0]
    ELSE LET hit == {i \in 1..Len(THRESHOLDS) : s.combo >= THRESHOLDS[i].min}
         IN IF hit = {} THEN [s EXCEPT !.combo = 0]
            ELSE LET i == CHOOSE k \in hit : \A j \in hit : j <= k
                 IN [s EXCEPT !.score = @ + THRESHOLDS[i].points,
                              !.shots = @ + THRESHOLDS[i].shots,
                              !.combo = 0]

\* ------------------------------------------------------------------ actions
NoCall == [op |-> "none", wall |-> 0, ret |-> FALSE]

NoComboLog == [n |-> 0, last |-> 0, close |-> TRUE, finalized |-> <<>>]
NoStepLog == [added |-> 0, stepped |-> 0]

\* The constructors of PoolGame, PhysicsWorld and Ball: no timer is pending,
\* the accumulator is empty, no frame has been timed and the ball is at the
\* centre of the table.
ClocksAtRest ==
    /\ now = 0
    /\ comboDue = 0
    /\ comboLog = NoComboLog
    /\ accumulator = 0
    /\ lastFrameTime = 0
    /\ stepDt = 0
    /\ stepLog = NoStepLog
    /\ ballPos = <<0, 0>>
    /\ spawnAttempts = [w \in WallIds |-> 0]
    /\ SessionAtRest

Init ==
    /\ walls = {}
    /\ removing = {}
    /\ wallRemovalQueue = <<>>
    /\ removedBodies = {}
    /\ wallObj = [w \in WallIds |-> NoWall]
    /\ staggerTimers = {}
    /\ pops = 0
    /\ worldBodies = {}
    /\ steps = 0
    /\ contacts = {}
    /\ pc = "idle"
    /\ isPlaying = FALSE
    /\ level = 1
    /\ score = 0
    /\ combo = 0
    /\ comboTimer = FALSE
    /\ shotsRemaining = BASE_SHOTS
    /\ ballSpeed = 0
    /\ extraBalls = <<>>
    /\ nextLevelTimers = 0
    /\ shotsFired = 0
    /\ frames = 0
    /\ lastCall = NoCall
    /\ ClocksAtRest
    /\ wallDestroyed = [w \in WallIds |-> 0]
    /\ powerUpTriggered = [w \in WallIds |-> 0]
    /\ countChanged = 0
    /\ allCleared = 0

\* startGame (homeScreen.onPlay)
startGameWith(s, ids) ==
    createWallsWith(
        clearExtraBalls([s EXCEPT !.level = 1, !.score = 0, !.combo = 0,
                                  !.comboTimer = FALSE, !.shots = BASE_SHOTS,
                                  !.ballSpeed = 0]), ids)

startGame(s, p) == startGameWith(s, NewIds(p))

StartGame ==
    /\ pc = "idle"
    /\ ~isPlaying
    /\ pops < MaxPops
    /\ \E pop \in Populations :
        /\ wallObj' = NewWallObj(pops, pop)
        /\ Commit(startGame(Cur, pops))
    /\ isPlaying' = TRUE
    /\ pops' = pops + 1
    /\ UNCHANGED <<steps, contacts, pc, shotsFired, frames, lastCall>>
    /\ UNCHANGED <<clockVars, stepperVars, placeVars, sessionVars>>

\* onShoot that leaves the combo and its timer alone
onShootKeepsCombo(s, v) ==
    [s EXCEPT !.shots = @ - 1, !.ballSpeed = v]

\* onShoot that does not charge the shot
onShootUncharged(s, v) ==
    [s EXCEPT !.combo = 0, !.comboTimer = FALSE, !.ballSpeed = v]

\* onShoot(direction, magnitude)
onShoot(s, v) ==
    [s EXCEPT !.shots = @ - 1, !.combo = 0, !.comboTimer = FALSE,
              !.ballSpeed = v]

Shoot ==
    /\ pc = "idle"
    /\ isPlaying
    /\ shotsRemaining > 0
    /\ shotsFired < MaxShots
    /\ \E v \in ShotSpeeds : Commit(onShoot(Cur, v))
    /\ shotsFired' = shotsFired + 1
    /\ UNCHANGED <<wallObj, pops, steps, contacts, pc, isPlaying, frames, lastCall>>
    /\ UNCHANGED <<clockVars, stepperVars, placeVars, sessionVars>>

\* animate, up to the call of physics.update, and the head of update
AnimateBegin ==
    /\ pc = "idle"
    /\ isPlaying
    /\ frames < MaxFrames
    /\ frames' = frames + 1
    /\ pc' = "loop"
    /\ steps' = 0
    /\ UNCHANGED handlerVars
    /\ UNCHANGED <<wallObj, pops, contacts, isPlaying, shotsFired, lastCall>>
    /\ UNCHANGED <<clockVars, stepperVars, placeVars, sessionVars>>

\* update: the loop test passed, World.step is entered
StepBegin ==
    /\ pc = "loop"
    /\ steps < MaxSubsteps
    /\ pc' = "instep"
    /\ contacts' = {}
    /\ UNCHANGED handlerVars
    /\ UNCHANGED <<wallObj, pops, steps, isPlaying, shotsFired, frames, lastCall>>
    /\ UNCHANGED <<clockVars, stepperVars, placeVars, sessionVars>>

\* The bodies a collide event may name: a wall body of the world, or one
\* detached earlier that the engine's contact cache still holds.
CollidableBodies == worldBodies \cup removedBodies

\* the collide listener of the main ball
collideMain(s, body) ==
    [queueRemoval(s, body) EXCEPT
        !.ballSpeed = applyWallEffect(TypeOf(body), @)]

CollideMain(body) ==
    /\ pc = "instep"
    /\ <<0, body>> \notin contacts
    /\ body \in CollidableBodies
    /\ Commit(collideMain(Cur, body))
    /\ contacts' = contacts \cup {<<0, body>>}
    /\ UNCHANGED <<wallObj, pops, steps, pc, isPlaying, shotsFired, frames, lastCall>>
    /\ UNCHANGED <<clockVars, stepperVars, placeVars, sessionVars>>

\* the collide listener of extra ball i
collideExtra(s, i, body) ==
    [queueRemoval(s, body) EXCEPT
        !.extraBalls[i].speed = applyWallEffect(TypeOf(body), @)]

CollideExtra(i, body) ==
    /\ pc = "instep"
    /\ i \in 1..Len(extraBalls)
    /\ <<i, body>> \notin contacts
    /\ body \in CollidableBodies
    /\ Commit(collideExtra(Cur, i, body))
    /\ contacts' = contacts \cup {<<i, body>>}
    /\ UNCHANGED <<wallObj, pops, steps, pc, isPlaying, shotsFired, frames, lastCall>>
    /\ UNCHANGED <<clockVars, stepperVars, placeVars, sessionVars>>

\* World.step returns: the solver and the integrator have set the
\* velocities.  A ball in contact leaves with any of the sampled speeds; a
\* ball in free flight keeps its speed or has been damped to rest.
StepSpeeds(ball, v) ==
    IF \E c \in contacts : c[1] = ball THEN SolverSpeeds ELSE {v, 0}

WorldStepReturn ==
    /\ pc = "instep"
    /\ pc' = "between"
    /\ steps' = steps + 1
    /\ contacts' = {}
    /\ ballSpeed' \in StepSpeeds(0, ballSpeed)
    /\ \E sp \in [1..Len(extraBalls) ->
                    SolverSpeeds \cup {extraBalls[i].speed : i \in 1..Len(extraBalls)}] :
        /\ \A i \in 1..Len(extraBalls) : sp[i] \in StepSpeeds(i, extraBalls[i].speed)
        /\ extraBalls' = [i \in 1..Len(extraBalls) |->
                            [extraBalls[i] EXCEPT !.speed = sp[i]]]
    /\ UNCHANGED <<walls, removing, wallRemovalQueue, removedBodies, worldBodies,
                   staggerTimers, level, score, combo, comboTimer,
                   shotsRemaining, nextLevelTimers, wallDestroyed,
                   powerUpTriggered, countChanged, allCleared>>
    /\ UNCHANGED <<wallObj, pops, isPlaying, shotsFired, frames, lastCall>>
    /\ UNCHANGED <<clockVars, stepperVars, placeVars, sessionVars>>

\* update: onSubstep() runs after World.step
OnSubstep ==
    /\ pc = "between"
    /\ pc' = "loop"
    /\ Commit(onSubstep(Cur))
    /\ UNCHANGED <<wallObj, pops, steps, contacts, isPlaying, shotsFired, frames, lastCall>>
    /\ UNCHANGED <<clockVars, stepperVars, placeVars, sessionVars>>

\* updateExtraBalls: a ball is removed when it is expired (the wall clock,
\* an input here) or below the sleep speed limit.
stopped(b) == b.speed < BALL_SLEEP_SPEED_LIMIT

updateExtraBallsNoTimeout(balls, expired) ==
    SelectSeq(balls, LAMBDA b : ~stopped(b))

updateExtraBalls(balls, expired) ==
    LET keep == SelectSeq(
            [i \in 1..Len(balls) |->
                [speed |-> balls[i].speed, spawnTime |-> balls[i].spawnTime,
                 gone |-> i \in expired \/ stopped(balls[i])]],
            LAMBDA b : ~b.gone)
    IN [i \in 1..Len(keep) |->
            [speed |-> keep[i].speed, spawnTime |-> keep[i].spawnTime]]

\* update leaves its loop; the rest of animate
FrameEnd ==
    /\ pc = "loop"
    /\ pc' = "idle"
    /\ \E expired \in SUBSET (1..Len(extraBalls)) :
        extraBalls' = updateExtraBalls(extraBalls, expired)
    /\ UNCHANGED <<walls, removing, wallRemovalQueue, removedBodies, worldBodies,
                   staggerTimers, level, score, combo, comboTimer,
                   shotsRemaining, ballSpeed, nextLevelTimers, wallDestroyed,
                   powerUpTriggered, countChanged, allCleared>>
    /\ UNCHANGED <<wallObj, pops, steps, contacts, isPlaying, shotsFired, frames, lastCall>>
    /\ UNCHANGED <<clockVars, stepperVars, placeVars, sessionVars>>

\* the setTimeout callback of _triggerBomb for victim w
StaggerTimer(w) ==
    /\ pc = "idle"
    /\ w \in staggerTimers
    /\ Commit([showRemoval(Cur, w) EXCEPT !.timers = staggerFired(@, w)])
    /\ UNCHANGED <<wallObj, pops, steps, contacts, pc, isPlaying, shotsFired, frames, lastCall>>
    /\ UNCHANGED <<clockVars, stepperVars, placeVars, sessionVars>>

\* the setTimeout callback of scoreWall
ComboTimer ==
    /\ pc = "idle"
    /\ comboTimer
    /\ Commit([finalizeCombo(Cur) EXCEPT !.comboTimer = FALSE])
    /\ UNCHANGED <<wallObj, pops, steps, contacts, pc, isPlaying, shotsFired, frames, lastCall>>
    /\ UNCHANGED <<clockVars, stepperVars, placeVars, sessionVars>>

\* the setTimeout callback of nextLevel
NextLevelTimer ==
    /\ pc = "idle"
    /\ nextLevelTimers > 0
    /\ pops < MaxPops
    \* Timers fire in the order of their due times.  The stagger timers
    \* pending now were set no later than this one, and the combo timer was
    \* last restarted by one of them at the latest.
    /\ (NumWalls * STAGGER_DELAY < NEXT_LEVEL_DELAY) => staggerTimers = {}
    /\ (NumWalls * STAGGER_DELAY + SETTLE_DELAY < NEXT_LEVEL_DELAY) => ~comboTimer
    /\ \E pop \in Populations :
        /\ wallObj' = NewWallObj(pops, pop)
        /\ Commit([createWalls(Cur, pops) EXCEPT !.nextLevelTimers = @ - 1])
    /\ pops' = pops + 1
    /\ UNCHANGED <<steps, contacts, pc, isPlaying, shotsFired, frames, lastCall>>
    /\ UNCHANGED <<clockVars, stepperVars, placeVars, sessionVars>>

Next ==
    \/ StartGame
    \/ Shoot
    \/ AnimateBegin
    \/ StepBegin
    \/ \E b \in WallIds : CollideMain(b)
    \/ \E i \in 1..MaxExtraBalls, b \in WallIds : CollideExtra(i, b)
    \/ WorldStepReturn
    \/ OnSubstep
    \/ FrameEnd
    \/ \E w \in WallIds : StaggerTimer(w)
    \/ ComboTimer
    \/ NextLevelTimer

\* The game: frames, collisions, removals and timers.
Spec == Init /\ [][Next]_vars

\* ------------------------------------------------- direct calls of the API
\* The methods of a WallManager called directly, in any order, on the walls
\* of one population, as a unit test of the class would call them.
InitApi ==
    /\ \E pop \in Populations :
        /\ wallObj = [w \in WallIds |->
                        IF w \in NewIds(0)
                        THEN [type |-> pop.types[w], x |-> pop.spacing * (w - 1),
                              z |-> 0, rot |-> 0, halfLength |-> pop.halfLength]
                        ELSE NoWall]
    /\ walls = NewIds(0)
    /\ worldBodies = NewIds(0)
    /\ removing = {}
    /\ wallRemovalQueue = <<>>
    /\ removedBodies = {}
    /\ staggerTimers = {}
    /\ pops = 1
    /\ steps = 0
    /\ contacts = {}
    /\ pc = "idle"
    /\ isPlaying = TRUE
    /\ level = 1
    /\ score = 0
    /\ combo = 0
    /\ comboTimer = FALSE
    /\ shotsRemaining = BASE_SHOTS
    /\ ballSpeed = 0
    /\ extraBalls = <<>>
    /\ nextLevelTimers = 0
    /\ shotsFired = 0
    /\ frames = 0
    /\ lastCall = NoCall
    /\ ClocksAtRest
    /\ wallDestroyed = [w \in WallIds |-> 0]
    /\ powerUpTriggered = [w \in WallIds |-> 0]
    /\ countChanged = 0
    /\ allCleared = 0

ApiUnchanged ==
    UNCHANGED <<wallObj, pops, steps, contacts, pc, isPlaying, shotsFired, frames,
                clockVars, stepperVars, placeVars, sessionVars>>

\* wm._detachWall(w)
CallDetach(w) ==
    /\ w \in walls \cup removedBodies
    /\ Commit(detachWall(Cur, w).s)
    /\ lastCall' = [op |-> "detach", wall |-> w, ret |-> detachWall(Cur, w).ok]
    /\ ApiUnchanged

\* wm._removeWall(w, impactPos)
CallRemove(w) ==
    /\ w \in walls \cup removedBodies
    /\ Commit(removeWall(Cur, w))
    /\ lastCall' = [op |-> "remove", wall |-> w, ret |-> FALSE]
    /\ ApiUnchanged

\* wm.queueRemoval(body, impactPos)
CallQueue(w) ==
    /\ w \in walls \cup removedBodies
    /\ Commit(queueRemoval(Cur, w))
    /\ lastCall' = [op |-> "queue", wall |-> w, ret |-> FALSE]
    /\ ApiUnchanged

\* wm.processRemovals()
CallProcess ==
    /\ Commit(processRemovals(Cur))
    /\ lastCall' = [op |-> "process", wall |-> 0, ret |-> FALSE]
    /\ ApiUnchanged

\* a stagger timer of an earlier bomb fires between two calls
CallTimer(w) ==
    /\ w \in staggerTimers
    /\ Commit([showRemoval(Cur, w) EXCEPT !.timers = staggerFired(@, w)])
    /\ lastCall' = [op |-> "timer", wall |-> w, ret |-> FALSE]
    /\ ApiUnchanged

NextApi ==
    \/ \E w \in WallIds : CallDetach(w)
    \/ \E w \in WallIds : CallRemove(w)
    \/ \E w \in WallIds : CallQueue(w)
    \/ CallProcess
    \/ \E w \in WallIds : CallTimer(w)

SpecApi == InitApi /\ [][NextApi]_vars

\* ------------------------------------------------------- bomb detonations
\* Layouts for the sweep of _triggerBomb: each wall of a population is a bomb
\* or a normal wall, centred on a grid point, with a yaw of zero or a quarter
\* turn.  The grid steps put pairs of walls apart by less than, exactly, and
\* more than the sum of their half extents.
LayoutTypes == {"bomb", "normal"}
LayoutXs == {0, 3, 6}
LayoutZs == {0, 2}
LayoutRots == {0, 1}
LayoutWalls == 1..NumLayoutWalls

Placements ==
    [type : LayoutTypes, x : LayoutXs, z : LayoutZs, rot : LayoutRots,
     halfLength : HalfLengths]

\* A WallManager holding one such population, nothing removed yet.
InitBomb ==
    /\ \E lay \in [LayoutWalls -> Placements] :
        wallObj = [w \in WallIds |-> IF w \in LayoutWalls THEN lay[w] ELSE NoWall]
    /\ walls = LayoutWalls
    /\ worldBodies = LayoutWalls
    /\ removing = {}
    /\ wallRemovalQueue = <<>>
    /\ removedBodies = {}
    /\ staggerTimers = {}
    /\ pops = 1
    /\ steps = 0
    /\ contacts = {}
    /\ pc = "idle"
    /\ isPlaying = TRUE
    /\ level = 1
    /\ score = 0
    /\ combo = 0
    /\ comboTimer = FALSE
    /\ shotsRemaining = BASE_SHOTS
    /\ ballSpeed = 0
    /\ extraBalls = <<>>
    /\ nextLevelTimers = 0
    /\ shotsFired = 0
    /\ frames = 0
    /\ lastCall = NoCall
    /\ ClocksAtRest
    /\ wallDestroyed = [w \in WallIds |-> 0]
    /\ powerUpTriggered = [w \in WallIds |-> 0]
    /\ countChanged = 0
    /\ allCleared = 0

\* The collisions of one sub-step queue walls, the between-step callback
\* processes the queue, and the stagger timers fire.
LayoutQueue(w) ==
    /\ removedBodies = {}
    /\ CallQueue(w)

NextBomb ==
    \/ \E w \in WallIds : LayoutQueue(w)
    \/ CallProcess
    \/ \E w \in WallIds : CallTimer(w)

SpecBomb == InitBomb /\ [][NextBomb]_vars

\* ------------------------------------------------------- the combo timer
\* The wall clock and the settle timer of scoreWall.  After a shot, walls
\* are notified as destroyed (_showRemoval, from processRemovals or from a
\* stagger timer) at any instants of a clock that advances by half the settle
\* delay; the settle timer fires when it is due.
Tick == SETTLE_DELAY \div 2

\* Does the notification of wall w call setTimeout for the settle timer?
restartsTimer(s, w) == showRemoval([s EXCEPT !.comboTimer = FALSE], w).comboTimer

ComboShoot ==
    /\ shotsRemaining > 0
    /\ shotsFired < MaxShots
    /\ \E v \in ShotSpeeds : Commit(onShoot(Cur, v))
    /\ shotsFired' = shotsFired + 1
    /\ comboLog' = NoComboLog
    /\ UNCHANGED <<now, comboDue>>
    /\ UNCHANGED <<wallObj, pops, steps, contacts, pc, isPlaying, frames, lastCall>>
    /\ UNCHANGED <<stepperVars, placeVars, sessionVars>>

ComboNotify(w) ==
    /\ shotsFired > 0
    /\ w \in walls
    /\ comboLog.n < MaxNotified
    /\ comboTimer => now <= comboDue
    /\ Commit(showRemoval(Cur, w))
    /\ comboDue' = IF restartsTimer(Cur, w) THEN now + SETTLE_DELAY ELSE comboDue
    /\ comboLog' = [comboLog EXCEPT
                        !.n = @ + 1,
                        !.last = now,
                        !.close = @ /\ (comboLog.n = 0 \/ now - comboLog.last < SETTLE_DELAY)]
    /\ UNCHANGED now
    /\ UNCHANGED <<wallObj, pops, steps, contacts, pc, isPlaying, shotsFired, frames, lastCall>>
    /\ UNCHANGED <<stepperVars, placeVars, sessionVars>>

\* Time passes, but not beyond the instant a pending timer is due.
ComboTick ==
    /\ now < MaxTicks * Tick
    /\ comboTimer => now < comboDue
    /\ now' = now + Tick
    /\ UNCHANGED handlerVars
    /\ UNCHANGED <<comboDue, comboLog>>
    /\ UNCHANGED <<wallObj, pops, steps, contacts, pc, isPlaying, shotsFired, frames, lastCall>>
    /\ UNCHANGED <<stepperVars, placeVars, sessionVars>>

\* the setTimeout callback of scoreWall, at its due time
ComboFire ==
    /\ comboTimer
    /\ now >= comboDue
    /\ Commit([finalizeCombo(Cur) EXCEPT !.comboTimer = FALSE])
    /\ comboLog' = [comboLog EXCEPT !.finalized = Append(@, combo)]
    /\ UNCHANGED <<now, comboDue>>
    /\ UNCHANGED <<wallObj, pops, steps, contacts, pc, isPlaying, shotsFired, frames, lastCall>>
    /\ UNCHANGED <<stepperVars, placeVars, sessionVars>>

NextCombo ==
    \/ ComboShoot
    \/ \E w \in WallIds : ComboNotify(w)
    \/ ComboTick
    \/ ComboFire

SpecCombo == InitApi /\ [][NextCombo]_vars

\* ------------------------------------------------ a shot during a combo
\* Walls are destroyed before the shot too (by the shot before it): the
\* notifications of SpecCombo, with up to MaxPreShot of them ahead of the
\* shot, so that the shot finds a combo in progress and its timer pending.
PreShotNotify(w) ==
    /\ shotsFired = 0
    /\ w \in walls
    /\ comboLog.n < MaxPreShot
    /\ comboTimer => now <= comboDue
    /\ Commit(showRemoval(Cur, w))
    /\ comboDue' = IF restartsTimer(Cur, w) THEN now + SETTLE_DELAY ELSE comboDue
    /\ comboLog' = [comboLog EXCEPT !.n = @ + 1, !.last = now]
    /\ UNCHANGED now
    /\ UNCHANGED <<wallObj, pops, steps, contacts, pc, isPlaying, shotsFired, frames, lastCall>>
    /\ UNCHANGED <<stepperVars, placeVars, sessionVars>>

NextShot ==
    \/ \E w \in WallIds : PreShotNotify(w)
    \/ NextCombo

\* walls without power-ups, two or more of them worth a combo reward
InitShot ==
    /\ InitApi
    /\ \A w \in NewIds(0) : TypeOf(w) \in {"normal", "sticky"}
    /\ wallObj[NumWalls].x = 5 * (NumWalls - 1)

SpecShot == InitShot /\ [][NextShot]_vars

\* ------------------------------------------------- PhysicsWorld.update
\* Times are in units of 1/9600 s, speeds in 0.01 per second, so that DT,
\* MIN_STEP_DT, MAX_FRAME_DELTA and the quotients below are integers.
DT == TimeUnit \div 60
MIN_STEP_DT == TimeUnit \div 240
MAX_FRAME_DELTA == TimeUnit \div 10

\* Planar speeds of the ball when an iteration of the loop reads them: at
\* rest, below the epsilon, and around the speeds at which the step leaves
\* DT and reaches MIN_STEP_DT.  BULLET_SAFE_DISTANCE / speed is a whole
\* number of units for each.
StepSpeedsIn == {0, 5, 10, 240, 480, 960, 1280}
\* Time between two animation frames: half a frame, a frame, and a stall
\* longer than MAX_FRAME_DELTA.
FrameGaps == {DT \div 2, DT, MAX_FRAME_DELTA + DT}
\* Accumulators carried into a call, for update taken as a function.
CarriedAccumulators == {0, MAX_SUBSTEPS * DT, 2 * MAX_SUBSTEPS * DT}

\* a fixed step of DT
stepDtNominal(speedXZ) == DT

\* stepDt of one iteration
stepDtFor(speedXZ) ==
    Max(MIN_STEP_DT,
        Min(DT, (BULLET_SAFE_DISTANCE * TimeUnit) \div Max(speedXZ, SPEED_EPSILON)))

\* a delta without the clamp
frameDeltaUnclamped(last, time) ==
    IF last # 0 THEN time - last ELSE DT

\* delta of one call
frameDelta(last, time) ==
    IF last # 0 THEN Min(time - last, MAX_FRAME_DELTA) ELSE DT

\* a loop without a ceiling
mayStepAlways(n) == TRUE

\* the loop condition
mayStep(n) == n < MAX_SUBSTEPS

\* the time of a frame: requestAnimationFrame passes a later timestamp;
\* animate() called without one (at construction, and when the WebGL
\* context is restored) passes 0.
FrameTimes == {0} \cup {lastFrameTime + g : g \in FrameGaps}

\* update, up to the loop
UpdateBegin ==
    /\ pc = "idle"
    /\ frames < MaxUpdates
    /\ \E time \in FrameTimes :
        /\ accumulator' = accumulator + frameDelta(lastFrameTime, time)
        /\ stepLog' = [stepLog EXCEPT !.added = @ + frameDelta(lastFrameTime, time)]
        /\ lastFrameTime' = time
    /\ steps' = 0
    /\ pc' = "loop"
    /\ frames' = frames + 1
    /\ UNCHANGED handlerVars
    /\ UNCHANGED <<wallObj, pops, contacts, isPlaying, shotsFired, lastCall, stepDt>>
    /\ UNCHANGED <<clockVars, placeVars, sessionVars>>

\* one iteration that steps the world
UpdateStep ==
    /\ pc = "loop"
    /\ mayStep(steps)
    /\ \E speedXZ \in StepSpeedsIn :
        /\ accumulator >= stepDtFor(speedXZ)
        /\ stepDt' = stepDtFor(speedXZ)
        /\ ballSpeed' = speedXZ
    /\ accumulator' = accumulator - stepDt'
    /\ stepLog' = [stepLog EXCEPT !.stepped = @ + stepDt']
    /\ steps' = steps + 1
    /\ UNCHANGED <<walls, removing, wallRemovalQueue, removedBodies, worldBodies,
                   staggerTimers, level, score, combo, comboTimer,
                   shotsRemaining, extraBalls, nextLevelTimers, wallDestroyed,
                   powerUpTriggered, countChanged, allCleared>>
    /\ UNCHANGED <<wallObj, pops, contacts, pc, isPlaying, shotsFired, frames,
                   lastCall, lastFrameTime>>
    /\ UNCHANGED <<clockVars, placeVars, sessionVars>>

\* the loop ends: at the ceiling, or by the break
UpdateEnd ==
    /\ pc = "loop"
    /\ \/ ~mayStep(steps)
       \/ \E speedXZ \in StepSpeedsIn : accumulator < stepDtFor(speedXZ)
    /\ pc' = "idle"
    /\ UNCHANGED handlerVars
    /\ UNCHANGED <<wallObj, pops, steps, contacts, isPlaying, shotsFired, frames, lastCall>>
    /\ UNCHANGED <<clockVars, stepperVars, placeVars, sessionVars>>

NextStep ==
    \/ UpdateBegin
    \/ UpdateStep
    \/ UpdateEnd

\* A game being played, with carried in the accumulator and n calls of
\* update made.
PlayingWith(carried, n) ==
    /\ walls = {}
    /\ removing = {}
    /\ wallRemovalQueue = <<>>
    /\ removedBodies = {}
    /\ wallObj = [w \in WallIds |-> NoWall]
    /\ staggerTimers = {}
    /\ pops = 0
    /\ worldBodies = {}
    /\ steps = 0
    /\ contacts = {}
    /\ pc = "idle"
    /\ isPlaying = TRUE
    /\ level = 1
    /\ score = 0
    /\ combo = 0
    /\ comboTimer = FALSE
    /\ shotsRemaining = BASE_SHOTS
    /\ ballSpeed = 0
    /\ extraBalls = <<>>
    /\ nextLevelTimers = 0
    /\ shotsFired = 0
    /\ frames = n
    /\ lastCall = NoCall
    /\ now = 0
    /\ comboDue = 0
    /\ comboLog = NoComboLog
    /\ accumulator = carried
    /\ lastFrameTime \in {0, DT}
    /\ stepDt = 0
    /\ stepLog = [added |-> carried, stepped |-> 0]
    /\ ballPos = <<0, 0>>
    /\ spawnAttempts = [w \in WallIds |-> 0]
    /\ SessionAtRest
    /\ wallDestroyed = [w \in WallIds |-> 0]
    /\ powerUpTriggered = [w \in WallIds |-> 0]
    /\ countChanged = 0
    /\ allCleared = 0

\* From the constructors: an empty accumulator, no frame timed.
InitStep == PlayingWith(0, 0) /\ lastFrameTime = 0

SpecStep == InitStep /\ [][NextStep]_vars

\* One call of update, as a function of the accumulator carried into it.
InitUpdate == \E carried \in CarriedAccumulators : PlayingWith(carried, MaxUpdates - 1)

SpecUpdate == InitUpdate /\ [][NextStep]_vars

\* ------------------------------------------------------------ extra balls
\* The life of extra balls against the wall clock (Date.now(), in ms): a
\* multi-ball wall is destroyed while the main ball has any of the sampled
\* speeds, and frames follow one another at any of the sampled intervals,
\* the engine leaving each ball with any of the sampled speeds.
ShortGap == 16
LongGap == 2000
ExtraGaps == {ShortGap, LongGap}
ExtraSpeeds == {5, 10, 300}
MainSpeeds == {0, 5, 1280}
MaxNow == MaxSpawnNow + MULTI_BALL_TIMEOUT + LongGap
\* the instants, up to MaxSpawnNow, at which a frame can have ended
SpawnInstants ==
    {t \in 0..MaxSpawnNow :
        \E a, b \in 0..MaxSpawnNow : t = a * ShortGap + b * LongGap}

\* expired = now - eb.spawnTime > CONFIG.MULTI_BALL.TIMEOUT
Expired(balls, time) ==
    {i \in 1..Len(balls) : time - balls[i].spawnTime > MULTI_BALL_TIMEOUT}

\* onPowerUp("multiBall", pos) while the main ball moves at speed v
ExtraSpawn(v) ==
    /\ now <= MaxSpawnNow
    /\ Len(extraBalls) < MaxExtraBalls
    /\ Commit(handlePowerUp([Cur EXCEPT !.ballSpeed = v], "multiBall"))
    /\ lastCall' = [op |-> "spawnExtraBalls", wall |-> 0, ret |-> FALSE]
    /\ UNCHANGED <<wallObj, pops, steps, contacts, pc, isPlaying, shotsFired,
                   frames, clockVars, stepperVars, placeVars, sessionVars>>

\* One frame of animate, gap ms after the last: physics.update moves the
\* balls, then updateExtraBalls.  ret tells whether a ball that was not
\* stopped has been removed.
ExtraFrame(gap) ==
    /\ isPlaying
    /\ now < MaxNow
    /\ extraBalls # <<>> \/ now < MaxSpawnNow
    /\ now' = now + gap
    /\ \E sp \in [1..Len(extraBalls) -> ExtraSpeeds] :
        LET moved == [i \in 1..Len(extraBalls) |->
                        [extraBalls[i] EXCEPT !.speed = sp[i]]]
        IN /\ extraBalls' = updateExtraBalls(moved, Expired(moved, now'))
           /\ lastCall' = [op |-> "updateExtraBalls", wall |-> 0,
                           ret |-> \E i \in Expired(moved, now') : ~stopped(moved[i])]
    /\ UNCHANGED <<walls, removing, wallRemovalQueue, removedBodies, worldBodies,
                   staggerTimers, level, score, combo, comboTimer,
                   shotsRemaining, ballSpeed, nextLevelTimers, wallDestroyed,
                   powerUpTriggered, countChanged, allCleared>>
    /\ UNCHANGED <<wallObj, pops, steps, contacts, pc, isPlaying, shotsFired,
                   frames, comboDue, comboLog, stepperVars, placeVars, sessionVars>>

Frames == \E gap \in ExtraGaps : ExtraFrame(gap)

NextExtra ==
    \/ \E v \in MainSpeeds : ExtraSpawn(v)
    \/ Frames

\* a game in play, whatever its walls
InitExtra ==
    /\ InitApi
    /\ \A w \in NewIds(0) : TypeOf(w) = "multiBall"
    /\ wallObj[NumWalls].x = 5 * (NumWalls - 1)

SpecExtra == InitExtra /\ [][NextExtra]_vars

\* requestAnimationFrame keeps calling animate
SpecExtraLive == SpecExtra /\ WF_vars(Frames)

\* ------------------------------------------------------- wall placement
\* Lengths are in half wall thicknesses, as the footprints above.
\* _pointToSegmentDistSq(px, pz, ax, az, bx, bz), as the exact fraction
\* num / den: the point of the segment nearest to p is a (t = 0), b (t = 1)
\* or the foot of the perpendicular (t = dot / lenSq in between).
pointToSegmentDistSq(px, pz, ax, az, bx, bz) ==
    LET abx == bx - ax
        abz == bz - az
        apx == px - ax
        apz == pz - az
        lenSq == abx * abx + abz * abz
        dot == apx * abx + apz * abz
    IN IF lenSq = 0 \/ dot <= 0
       THEN [num |-> apx * apx + apz * apz, den |-> 1]
       ELSE IF dot >= lenSq
       THEN [num |-> (px - bx) * (px - bx) + (pz - bz) * (pz - bz), den |-> 1]
       ELSE [num |-> (apx * apx + apz * apz) * lenSq - dot * dot, den |-> lenSq]

\* cos and sin of a yaw of rot quarter turns
Cos(rot) == CASE rot % 4 = 0 -> 1 [] rot % 4 = 2 -> -1 [] OTHER -> 0
Sin(rot) == CASE rot % 4 = 1 -> 1 [] rot % 4 = 3 -> -1 [] OTHER -> 0

\* distSq >= clearanceSq for candidate c and the point createWalls measures from
farEnough(c, from) ==
    LET dx == Cos(c.rot) * c.halfLength
        dz == Sin(c.rot) * c.halfLength
        d == pointToSegmentDistSq(from[1], from[2],
                                  c.x - dx, c.z - dz, c.x + dx, c.z + dz)
    IN d.num >= BALL_SPAWN_CLEARANCE * BALL_SPAWN_CLEARANCE * d.den

\* ballX, ballZ: createWalls measures from ballPosition, or from the
\* centre of the table when it gets none.
NoPosition == <<>>
measuredFrom(ballPosition) ==
    IF ballPosition = NoPosition THEN <<0, 0>> ELSE ballPosition

\* The do-while loop of createWalls for one wall, draws being the values of
\* Math.random(): the candidate kept, and attempts when the loop ended.
RECURSIVE placeWall(_, _, _)
placeWall(from, draws, attempts) ==
    LET c == draws[attempts + 1]
    IN IF farEnough(c, from) THEN [wall |-> c, attempts |-> attempts]
       ELSE IF attempts + 1 < MaxAttempts THEN placeWall(from, draws, attempts + 1)
       ELSE [wall |-> c, attempts |-> attempts + 1]

\* What Math.random() can make of a candidate: its centre on the axis of
\* the table at the centre, on the clearance circle's far side and further
\* out, along the axis or across it.
PlaceXs == {0, 120, 240}
PlaceRots == {0, 1}
PlaceHalfLength == 80
Candidates ==
    [type : {"normal"}, x : PlaceXs, z : {0}, rot : PlaceRots,
     halfLength : {PlaceHalfLength}]
\* Where the ball can be when it is stopped.
BallSpots == {<<0, 0>>, <<120, 0>>, <<240, 0>>}

\* createWalls(level, ballMaterial, ballPosition) with its placements
Placed(p, ballPosition, draws) ==
    [w \in NewIds(p) |-> placeWall(measuredFrom(ballPosition), draws[w], 0)]

PlaceWalls(p, ballPosition) ==
    \E draws \in [NewIds(p) -> [1..MaxAttempts -> Candidates]] :
        /\ wallObj' = [w \in WallIds |->
                         IF w \in NewIds(p) THEN Placed(p, ballPosition, draws)[w].wall
                         ELSE IF w \in staggerTimers THEN wallObj[w]
                         ELSE NoWall]
        /\ spawnAttempts' = [w \in WallIds |->
                               IF w \in NewIds(p)
                               THEN Placed(p, ballPosition, draws)[w].attempts
                               ELSE 0]

\* startGame: ball.reset(), then createWalls(this.level, material)
PlaceStartGame ==
    /\ ~isPlaying
    /\ pops < MaxPops
    /\ ballPos' = <<0, 0>>
    /\ PlaceWalls(pops, NoPosition)
    /\ Commit(startGame(Cur, pops))
    /\ isPlaying' = TRUE
    /\ pops' = pops + 1
    /\ lastCall' = [op |-> "startGame", wall |-> 0, ret |-> FALSE]
    /\ UNCHANGED <<steps, contacts, pc, shotsFired, frames, clockVars, stepperVars,
                   sessionVars>>

\* the ball rolls after the shot
PlaceBallMoves(p) ==
    /\ isPlaying
    /\ ballSpeed > 0
    /\ p # ballPos
    /\ ballPos' = p
    /\ lastCall' = [op |-> "step", wall |-> 0, ret |-> FALSE]
    /\ UNCHANGED handlerVars
    /\ UNCHANGED <<wallObj, pops, steps, contacts, pc, isPlaying, shotsFired,
                   frames, clockVars, stepperVars, spawnAttempts, sessionVars>>

\* the moving ball hits wall w, which is removed after the step
PlaceHit(w) ==
    /\ isPlaying
    /\ ballSpeed > 0
    /\ w \in walls
    /\ Commit(processRemovals(queueRemoval(Cur, w)))
    /\ lastCall' = [op |-> "process", wall |-> w, ret |-> FALSE]
    /\ ApiUnchanged

\* the setTimeout callback of nextLevel: createWalls(this.level, material)
PlaceNextLevel ==
    /\ nextLevelTimers > 0
    /\ pops < MaxPops
    /\ PlaceWalls(pops, NoPosition)
    /\ Commit([createWalls(Cur, pops) EXCEPT !.nextLevelTimers = @ - 1])
    /\ pops' = pops + 1
    /\ lastCall' = [op |-> "createWalls", wall |-> 0, ret |-> FALSE]
    /\ UNCHANGED <<steps, contacts, pc, isPlaying, shotsFired, frames,
                   clockVars, stepperVars, ballPos, sessionVars>>

NextPlace ==
    \/ PlaceStartGame
    \/ Shoot
    \/ \E p \in BallSpots : PlaceBallMoves(p)
    \/ \E w \in WallIds : PlaceHit(w)
    \/ PlaceNextLevel

SpecPlace == Init /\ [][NextPlace]_vars

\* ------------------------------------------------------ full populations
\* createWalls called with the wall count of the code, on a manager whose
\* walls are hit (queueRemoval) and detached (_detachWall) in between.  The
\* bodies of population p get the ids after those of the populations before.
LevelIds(p, lv) ==
    (p * wallCount(MaxLevel) + 1)..(p * wallCount(MaxLevel) + wallCount(lv))

\* the walls a ball reaches: the first MaxTouched of the population
Touched == {w \in walls \cup removedBodies :
               Cardinality({v \in walls \cup removedBodies : v < w}) < MaxTouched}

\* wm.createWalls(this.level, material) at level lv
CreateLevel(lv) ==
    /\ pops < MaxPops
    /\ Commit(createWallsWith([Cur EXCEPT !.level = lv], LevelIds(pops, lv)))
    /\ pops' = pops + 1
    /\ lastCall' = [op |-> "createWalls", wall |-> 0, ret |-> FALSE]
    /\ UNCHANGED <<wallObj, steps, contacts, pc, isPlaying, shotsFired, frames,
                   clockVars, stepperVars, placeVars, sessionVars>>

CreateQueue(w) ==
    /\ w \in Touched
    /\ Commit(queueRemoval(Cur, w))
    /\ lastCall' = [op |-> "queue", wall |-> w, ret |-> FALSE]
    /\ ApiUnchanged

CreateDetach(w) ==
    /\ w \in Touched
    /\ Commit(detachWall(Cur, w).s)
    /\ lastCall' = [op |-> "detach", wall |-> w, ret |-> detachWall(Cur, w).ok]
    /\ ApiUnchanged

NextCreate ==
    \/ \E lv \in 1..MaxLevel : CreateLevel(lv)
    \/ \E w \in 1..(MaxPops * wallCount(MaxLevel)) : CreateQueue(w)
    \/ \E w \in 1..(MaxPops * wallCount(MaxLevel)) : CreateDetach(w)

SpecCreate == Init /\ [][NextCreate]_vars

\* ----------------------------------------------------- the animation loop
\* animate, the callbacks of requestAnimationFrame that run it, the catch
\* block around a frame and the listeners of the WebGL context events.
\* Where a frame throws: nowhere, before physics.update or after it.
Throws == {"none", "before", "after"}

LoopUnchanged ==
    UNCHANGED <<wallObj, pops, contacts, pc, isPlaying, shotsFired, frames,
                clockVars, stepperVars, placeVars, overVars, inputVars,
                materialVars>>

\* the try block of animate, in which the ball may hit wall hit (0: none)
\* during the physics step, and the catch block after it
animateBody(throws, hit) ==
    /\ IF isPlaying /\ throws # "before"
       THEN /\ Commit(processRemovals(queueRemoval(Cur, hit)))
            /\ steps' = steps + 1
       ELSE UNCHANGED <<handlerVars, steps>>
    /\ criticalError' = (criticalError \/ throws # "none")
    /\ lastCall' = [op |-> "animate", wall |-> hit, ret |-> throws # "none"]
    /\ LoopUnchanged

\* a callback of requestAnimationFrame runs animate
LoopAnimate(throws, hit) ==
    /\ rafPending > 0
    /\ steps < MaxLoopSteps
    /\ IF isContextLost
       THEN /\ rafPending' = rafPending - 1
            /\ lastCall' = [op |-> "animate", wall |-> 0, ret |-> FALSE]
            /\ UNCHANGED <<handlerVars, steps, criticalError, isContextLost>>
            /\ LoopUnchanged
       ELSE /\ rafPending' = rafPending
            /\ animateBody(throws, hit)
            /\ isContextLost' = (throws # "none")
    /\ UNCHANGED glLost

\* the listener of webglcontextlost
LoopContextLost ==
    /\ ~glLost
    /\ glLost' = TRUE
    /\ isContextLost' = TRUE
    /\ lastCall' = [op |-> "contextlost", wall |-> 0, ret |-> FALSE]
    /\ UNCHANGED <<handlerVars, steps, criticalError, rafPending>>
    /\ LoopUnchanged

\* the listener of webglcontextrestored, which calls animate itself
LoopContextRestored(throws, hit) ==
    /\ glLost
    /\ rafPending < MaxRaf
    /\ steps < MaxLoopSteps
    /\ glLost' = FALSE
    /\ rafPending' = rafPending + 1
    /\ animateBody(throws, hit)
    /\ isContextLost' = (throws # "none")

\* the start button
LoopStart ==
    /\ ~isPlaying
    /\ pops < MaxPops
    /\ \E pop \in Populations :
        /\ \A i \in 1..NumWalls : pop.types[i] = "normal"
        /\ wallObj' = NewWallObj(pops, pop)
        /\ Commit(startGame(Cur, pops))
    /\ pops' = pops + 1
    /\ isPlaying' = TRUE
    /\ lastCall' = [op |-> "startGame", wall |-> 0, ret |-> FALSE]
    /\ UNCHANGED <<steps, contacts, pc, shotsFired, frames, clockVars,
                   stepperVars, placeVars, sessionVars>>

NextLoop ==
    \/ \E th \in Throws, hit \in {0} \cup WallIds : LoopAnimate(th, hit)
    \/ LoopContextLost
    \/ \E th \in Throws, hit \in {0} \cup WallIds : LoopContextRestored(th, hit)
    \/ LoopStart

SpecLoop == Init /\ [][NextLoop]_vars

\* ------------------------------------------------- transitions and resets
\* returnToHome
returnToHome(s) ==
    clear(clearExtraBalls([s EXCEPT !.comboTimer = FALSE]))

\* The pending callbacks of setTimeout run against a manager and a game on
\* which createWalls, returnToHome and startGame are called, the timers
\* driven by hand as a test with a fake clock drives them.
ResetUnchanged ==
    UNCHANGED <<steps, contacts, pc, shotsFired, frames, clockVars, stepperVars, placeVars, sessionVars>>

\* the setTimeout callback of nextLevel: createWalls for the next level
ResetLevel ==
    /\ isPlaying
    /\ pops < MaxPops
    /\ \E pop \in Populations :
        /\ wallObj' = NewWallObj(pops, pop)
        /\ Commit(createWalls(Cur, pops))
    /\ pops' = pops + 1
    /\ lastCall' = [op |-> "createWalls", wall |-> 0, ret |-> FALSE]
    /\ UNCHANGED isPlaying
    /\ ResetUnchanged

ResetHome ==
    /\ isPlaying
    /\ Commit(returnToHome(Cur))
    /\ isPlaying' = FALSE
    /\ lastCall' = [op |-> "returnToHome", wall |-> 0, ret |-> FALSE]
    /\ UNCHANGED <<wallObj, pops>>
    /\ ResetUnchanged

ResetStart ==
    /\ ~isPlaying
    /\ pops < MaxPops
    /\ \E pop \in Populations :
        /\ wallObj' = NewWallObj(pops, pop)
        /\ Commit(startGame(Cur, pops))
    /\ pops' = pops + 1
    /\ isPlaying' = TRUE
    /\ lastCall' = [op |-> "startGame", wall |-> 0, ret |-> FALSE]
    /\ ResetUnchanged

\* the setTimeout callback of scoreWall
ResetCombo ==
    /\ comboTimer
    /\ Commit([finalizeCombo(Cur) EXCEPT !.comboTimer = FALSE])
    /\ lastCall' = [op |-> "finalizeCombo", wall |-> 0, ret |-> FALSE]
    /\ ApiUnchanged

\* collisions and the between-step callback, while a game is played
ResetQueue(w) ==
    /\ isPlaying
    /\ w \in walls
    /\ CallQueue(w)

ResetProcess ==
    /\ isPlaying
    /\ wallRemovalQueue # <<>>
    /\ CallProcess

NextReset ==
    \/ \E w \in WallIds : ResetQueue(w)
    \/ ResetProcess
    \/ \E w \in WallIds : CallTimer(w)
    \/ ResetCombo
    \/ ResetLevel
    \/ ResetHome
    \/ ResetStart

SpecReset == InitApi /\ [][NextReset]_vars

\* ------------------------------------------------------ the end of a game
\* The last shots of a game: frames of animate with its deferred game-over
\* check, the shots, the settle timer, the way home from the game-over
\* screen and the start button, over MaxOverNow ms, in which the delayed
\* createWalls of nextLevel (NEXT_LEVEL_DELAY later) does not come due.  Time is in
\* ms; a frame comes ShortGap after the last, the clock starting at
\* the first shot.  The balls meet the walls in the order of their ids, at
\* the instants HitInstants, out of which the extra balls are slow.
OverIds == 1..(OverWalls * MaxPops)
OverPop(p) == (p * OverWalls + 1)..((p + 1) * OverWalls)
NextWall(ws) == {w \in ws : \A u \in ws : w <= u}
\* planar speeds the engine leaves a ball with, in 0.01 per second
OverSpeeds == {0, 5, 1280}
OverExtraSpeeds == {5, 300}

\* ballSettledTime >= BALL_SLEEP_TIME_LIMIT after n additions of 1 / 60 to
\* 0: in double precision 30 additions give 0.49999999999999994 and 31
\* give 0.5166666666666666, so the test first holds at the 31st.
SleepFrames == 31
settledEnough(n) == n >= SleepFrames

\* when a ball reaches a wall: in the first MaxHitNow ms, or in the last
\* frame but one of a main ball that has been slow since the shot
HitInstants == 1..MaxHitNow \cup {(SleepFrames - 1) * ShortGap}

\* the condition without its test of this.isGameOver
shouldCheckAgain(s, over) ==
    s.shots <= 0 /\ s.walls # {} /\ Len(s.extraBalls) = 0

\* the condition of the deferred game-over check
shouldCheck(s, over) ==
    ~over /\ s.shots <= 0 /\ s.walls # {} /\ Len(s.extraBalls) = 0

\* gameOver, but for this.isGameOver
gameOver(s) == clearExtraBalls([s EXCEPT !.ballSpeed = 0, !.comboTimer = FALSE])

\* the collide listener of ball who (0: the main ball) on wall hit (0: none)
collideAny(s, who, hit) ==
    IF hit = 0 THEN s
    ELSE IF who = 0 THEN collideMain(s, hit)
    ELSE collideExtra(s, who, hit)

\* physics.update and updateExtraBalls of one frame at time t: ball who
\* hits wall hit, the engine leaves the main ball at speed v and the extra
\* balls at speeds sp, then the removals are processed
frameMoves(s, t, who, hit, v, sp) ==
    LET s1 == collideAny([s EXCEPT !.now = t], who, hit)
        s2 == [s1 EXCEPT !.ballSpeed = v,
                         !.extraBalls = [i \in 1..Len(s1.extraBalls) |->
                                            [s1.extraBalls[i] EXCEPT !.speed = sp[i]]]]
        s3 == processRemovals(s2)
    IN [s3 EXCEPT !.extraBalls = updateExtraBalls(@, Expired(@, t))]

\* The due times once a handler that ran at time t has left timers
\* pending: victim i of its bomb is due (i + 1) * 50 ms later.
dueAfter(timers, t) ==
    [w \in timers |->
        IF w \in staggerTimers THEN staggerDue[w]
        ELSE t + (Cardinality({u \in timers \ staggerTimers : u < w}) + 1) * STAGGER_DELAY]

OverUnchanged ==
    UNCHANGED <<wallObj, contacts, pc, frames, stepperVars, placeVars, loopVars,
                materialVars>>

\* the canShoot callback an InputManager is built with
canShootDefault == TRUE

\* input.canShoot, as PoolGame sets it
canShoot == isPlaying /\ ~isGameOver /\ shotsRemaining > 0

\* a frame of animate, gap ms after the last; ret tells whether the frame
\* ends without an extra ball
OverFrame(gap, who, hit, v, sp) ==
    /\ isPlaying
    /\ shotsFired > 0
    /\ now + gap <= MaxOverNow
    /\ comboTimer => comboDue >= now + gap
    /\ \A w \in staggerTimers : staggerDue[w] >= now + gap
    /\ hit # 0 => now + gap \in HitInstants
    /\ \A i \in DOMAIN sp : ~stopped([speed |-> sp[i]]) => now + gap \in HitInstants
    /\ who \in 0..Len(extraBalls)
    /\ hit \in {0} \cup NextWall(walls)
    /\ hit # 0 => IF who = 0 THEN ballSpeed > 0 ELSE ~stopped(extraBalls[who])
    \* with no other ball to push it the main ball slows down, or bounces
    /\ extraBalls = <<>> =>
          v <= IF hit = 0 THEN ballSpeed ELSE applyWallEffect("extraBounce", ballSpeed)
    /\ \E s \in {frameMoves(Cur, now + gap, who, hit, v, sp)} :
       LET slow == s.ballSpeed < BALL_SLEEP_SPEED_LIMIT
           check == shouldCheck(s, isGameOver)
           settled == IF ~check THEN ballSettledTime
                      ELSE IF slow THEN ballSettledTime + 1 ELSE 0
           over == check /\ slow /\ settledEnough(settled)
       IN /\ \E e \in {IF over THEN gameOver(s) ELSE s} : Commit(e)
          /\ ballSettledTime' = settled
          /\ isGameOver' = (isGameOver \/ over)
          /\ gameOverCalls' = gameOverCalls + (IF over THEN 1 ELSE 0)
          /\ slowRun' = IF slow THEN Min(slowRun + 1, SleepFrames) ELSE 0
          /\ comboDue' = IF s.score > score THEN now + gap + SETTLE_DELAY ELSE comboDue
          /\ staggerDue' = dueAfter(s.timers, now + gap)
          /\ lastCall' = [op |-> IF over THEN "gameOver" ELSE "animate",
                          wall |-> hit, ret |-> Len(s.extraBalls) = 0]
    /\ now' = now + gap
    /\ UNCHANGED <<pops, isPlaying, steps, shotsFired, comboLog, inputVars>>
    /\ OverUnchanged

OverFrames ==
    \E gap \in {ShortGap}, who \in 0..MaxExtraBalls, hit \in {0} \cup OverIds,
       v \in OverSpeeds, sp \in [1..Len(extraBalls) -> OverExtraSpeeds] :
        OverFrame(gap, who, hit, v, sp)

\* input.onShoot, which input.canShoot guards
OverShoot ==
    /\ canShoot
    /\ shotsFired < MaxOverShots
    /\ \E v \in ShotSpeeds : Commit(onShoot(Cur, v))
    /\ ballSettledTime' = 0
    /\ shotsFired' = shotsFired + 1
    /\ lastCall' = [op |-> "onShoot", wall |-> 0, ret |-> FALSE]
    /\ UNCHANGED <<pops, isPlaying, steps, clockVars, isGameOver, gameOverCalls,
                   slowRun, staggerDue, inputVars>>
    /\ OverUnchanged

\* the setTimeout callback of _triggerBomb for victim w, which runs before
\* the first frame that comes after it is due, the timers in their order
OverStagger(w) ==
    /\ w \in staggerTimers
    /\ staggerDue[w] <= now + ShortGap
    /\ \A u \in staggerTimers : staggerDue[w] <= staggerDue[u]
    /\ comboTimer => staggerDue[w] <= comboDue
    /\ \E s \in {[showRemoval(Cur, w) EXCEPT !.timers = staggerFired(@, w)]} :
        /\ Commit(s)
        /\ comboDue' = IF s.score > score THEN staggerDue[w] + SETTLE_DELAY ELSE comboDue
        /\ staggerDue' = [u \in s.timers |-> staggerDue[u]]
    /\ lastCall' = [op |-> "timer", wall |-> w, ret |-> FALSE]
    /\ UNCHANGED <<pops, isPlaying, steps, shotsFired, now, comboLog,
                   isGameOver, ballSettledTime, gameOverCalls, slowRun, inputVars>>
    /\ OverUnchanged

\* the setTimeout callback of scoreWall, which runs before the first frame
\* that comes after it is due (before or after a frame of that very ms)
OverCombo ==
    /\ comboTimer
    /\ comboDue <= now + ShortGap
    /\ \A u \in staggerTimers : comboDue <= staggerDue[u]
    /\ Commit([finalizeCombo(Cur) EXCEPT !.comboTimer = FALSE])
    /\ lastCall' = [op |-> "finalizeCombo", wall |-> 0, ret |-> FALSE]
    /\ UNCHANGED <<pops, isPlaying, steps, shotsFired, clockVars, overVars, inputVars>>
    /\ OverUnchanged

\* the callback of the game-over screen
OverHome ==
    /\ isPlaying /\ isGameOver
    /\ Commit(returnToHome(Cur))
    /\ isPlaying' = FALSE
    /\ lastCall' = [op |-> "returnToHome", wall |-> 0, ret |-> FALSE]
    /\ UNCHANGED <<pops, steps, shotsFired, clockVars, overVars, inputVars>>
    /\ OverUnchanged

\* the start button of the home screen
OverStart ==
    /\ ~isPlaying
    /\ pops < MaxPops
    /\ Commit(startGameWith(Cur, OverPop(pops)))
    /\ pops' = pops + 1
    /\ isPlaying' = TRUE
    /\ isGameOver' = FALSE
    /\ ballSettledTime' = 0
    /\ lastCall' = [op |-> "startGame", wall |-> 0, ret |-> FALSE]
    /\ UNCHANGED <<steps, shotsFired, clockVars, gameOverCalls, slowRun, staggerDue,
                   inputVars>>
    /\ OverUnchanged

NextOver ==
    \/ OverFrames
    \/ OverShoot
    \/ \E w \in OverIds : OverStagger(w)
    \/ OverCombo
    \/ OverHome
    \/ OverStart

\* A game in play on its last shot: BASE_SHOTS - 1 shots have hit nothing.
\* The walls of every population: one that may spawn a ball or blow up its
\* neighbour, plain ones, and a sticky one before the last plain one; a
\* bomb overlaps its neighbour, other walls are apart from each other.
InitOver ==
    /\ \E first \in {"normal", "multiBall", "bomb"} :
        wallObj = [w \in OverIds |->
                    [type |-> CASE w % OverWalls = 1 -> first
                                [] w % OverWalls = OverWalls - 1 -> "sticky"
                                [] OTHER -> "normal",
                     x |-> (IF first = "bomb" THEN 3 ELSE 5) * ((w - 1) % OverWalls),
                     z |-> 0, rot |-> 0, halfLength |-> 2]]
    /\ walls = OverPop(0)
    /\ worldBodies = OverPop(0)
    /\ removing = {}
    /\ wallRemovalQueue = <<>>
    /\ removedBodies = {}
    /\ staggerTimers = {}
    /\ pops = 1
    /\ steps = 0
    /\ contacts = {}
    /\ pc = "idle"
    /\ isPlaying = TRUE
    /\ level = 1
    /\ score = 0
    /\ combo = 0
    /\ comboTimer = FALSE
    /\ shotsRemaining = 1
    /\ ballSpeed = 0
    /\ extraBalls = <<>>
    /\ nextLevelTimers = 0
    /\ shotsFired = 0
    /\ frames = 0
    /\ lastCall = NoCall
    /\ ClocksAtRest
    /\ wallDestroyed = [w \in OverIds |-> 0]
    /\ powerUpTriggered = [w \in OverIds |-> 0]
    /\ countChanged = 0
    /\ allCleared = 0

SpecOver == InitOver /\ [][NextOver]_vars

\* requestAnimationFrame keeps calling animate, and a timer that is due runs
SpecOverLive ==
    SpecOver /\ WF_vars(OverFrames) /\ WF_vars(OverCombo)
             /\ WF_vars(\E w \in OverIds : OverStagger(w))

\* ------------------------------------------------------- aim gestures
\* The shot as InputManager makes it: a press near the ball starts an aim
\* if canShoot allows it, a release ends it and calls onShoot.  Presses and
\* releases of the mouse (0) and of the touches TouchIds interleave with
\* the frames and the timers of the runs above.
TouchIds == {1, 2}

\* onInputStart of mousedown (touch = 0) or of touchstart for touch
InputStart(touch) ==
    /\ canShoot
    /\ ~(touch # 0 /\ activeTouchId # 0)
    /\ isAiming' = TRUE
    /\ activeTouchId' = touch
    /\ lastCall' = [op |-> "aim", wall |-> touch, ret |-> FALSE]
    /\ UNCHANGED <<handlerVars, pops, isPlaying, steps, shotsFired, clockVars, overVars>>
    /\ OverUnchanged

\* onInputEnd of mouseup (touch = 0) or of touchend and touchcancel, where
\* touch is the identifier getInputPosition finds
InputEnd(touch) ==
    /\ isAiming
    /\ ~(touch # 0 /\ activeTouchId # 0 /\ touch # activeTouchId)
    /\ shotsFired < MaxOverShots
    /\ \E v \in ShotSpeeds : Commit(onShoot(Cur, v))
    /\ ballSettledTime' = 0
    /\ shotsFired' = shotsFired + 1
    /\ isAiming' = FALSE
    /\ activeTouchId' = 0
    /\ lastCall' = [op |-> "onShoot", wall |-> touch, ret |-> FALSE]
    /\ UNCHANGED <<pops, isPlaying, steps, clockVars, isGameOver, gameOverCalls,
                   slowRun, staggerDue>>
    /\ OverUnchanged

NextInput ==
    \/ \E touch \in {0} \cup TouchIds : InputStart(touch)
    \/ \E touch \in {0} \cup TouchIds : InputEnd(touch)
    \/ OverFrames
    \/ \E w \in OverIds : OverStagger(w)
    \/ OverCombo
    \/ OverHome
    \/ OverStart

SpecInput == InitOver /\ [][NextInput]_vars

\* --------------------------------------------------- contact materials
\* createWalls and clearAll with the contact materials they add to and
\* remove from the world.  A contact material is [id, behavior, pop]: pop
\* is the number of the population it was made for.
WALL_BEHAVIORS == <<"normal", "extraBounce", "sticky", "lowBounce">>

\* Array.prototype.indexOf, 0 when cm is absent
indexOfMaterial(list, cm) ==
    IF \E i \in DOMAIN list : list[i] = cm
    THEN CHOOSE i \in DOMAIN list :
            list[i] = cm /\ \A j \in DOMAIN list : list[j] = cm => i <= j
    ELSE 0

\* a removeContactMaterial that removes nothing
keepContactMaterial(list, cm) == list

\* physics.removeContactMaterial(cm): splice(idx, 1) when idx > -1
removeContactMaterial(list, cm) ==
    LET idx == indexOfMaterial(list, cm)
    IN IF idx > 0
       THEN SubSeq(list, 1, idx - 1) \o SubSeq(list, idx + 1, Len(list))
       ELSE list

\* for (const cm of this.wallContactMaterials) removeContactMaterial(cm)
RECURSIVE removeContactMaterials(_, _)
removeContactMaterials(list, cms) ==
    IF cms = <<>> THEN list
    ELSE removeContactMaterials(removeContactMaterial(list, Head(cms)), Tail(cms))

\* the contact materials createWalls makes for population p, one for each
\* entry of CONFIG.WALL_BEHAVIORS
newContactMaterials(next, p) ==
    [i \in DOMAIN WALL_BEHAVIORS |->
        [id |-> next + i - 1, behavior |-> WALL_BEHAVIORS[i], pop |-> p]]

\* wm.createWalls(lv, material)
MaterialCreateWalls(lv) ==
    /\ pops < MaxMaterialPops
    /\ Commit(createWallsWith([Cur EXCEPT !.level = lv], LevelIds(pops, lv)))
    /\ pops' = pops + 1
    /\ contactmaterials' =
           removeContactMaterials(contactmaterials, wallContactMaterials)
               \o newContactMaterials(materialIds, pops + 1)
    /\ wallContactMaterials' = newContactMaterials(materialIds, pops + 1)
    /\ materialIds' = materialIds + Len(WALL_BEHAVIORS)
    /\ lastCall' = [op |-> "createWalls", wall |-> 0, ret |-> FALSE]
    /\ UNCHANGED <<wallObj, steps, contacts, pc, isPlaying, shotsFired, frames,
                   clockVars, stepperVars, placeVars, loopVars, overVars, inputVars>>

\* wm.clearAll()
MaterialClearAll ==
    /\ Commit(clear(Cur))
    /\ contactmaterials' =
           removeContactMaterials(contactmaterials, wallContactMaterials)
    /\ wallContactMaterials' = <<>>
    /\ lastCall' = [op |-> "clearAll", wall |-> 0, ret |-> FALSE]
    /\ UNCHANGED <<wallObj, pops, steps, contacts, pc, isPlaying, shotsFired, frames,
                   clockVars, stepperVars, placeVars, loopVars, overVars, inputVars,
                   materialIds>>

NextMaterials ==
    \/ \E lv \in 1..MaxLevel : MaterialCreateWalls(lv)
    \/ MaterialClearAll
    \/ \E w \in 1..(MaxMaterialPops * wallCount(MaxLevel)) : CreateQueue(w)
    \/ \E w \in 1..(MaxMaterialPops * wallCount(MaxLevel)) : CreateDetach(w)

SpecMaterials == Init /\ [][NextMaterials]_vars

\* the wall contact materials the world holds
WorldWallMaterials ==
    SelectSeq(contactmaterials, LAMBDA cm : cm # ballTableContact)

\* ------------------------------------------------------------- properties
Queued == {wallRemovalQueue[i] : i \in 1..Len(wallRemovalQueue)}

\* What a WallManager holds and what it has notified.
managerVars ==
    <<walls, removing, wallRemovalQueue, removedBodies, worldBodies,
      staggerTimers, wallDestroyed, powerUpTriggered, countChanged, allCleared>>

\* What PoolGame's scoring and progression hold.
scoringVars == <<score, combo, comboTimer, level, shotsRemaining, nextLevelTimers>>

\* C1: whatever the interleaving of collision callbacks of the main ball and
\* of extra balls, processRemovals, bomb sweeps and stagger timers, the
\* wallDestroyed notification fires at most once for each wall.
C1_WallDestroyedAtMostOnce ==
    \A w \in WallIds : wallDestroyed[w] <= 1

\* A bomb and the victim of its sweep have both been notified, the victim by
\* its stagger timer.
C1_Witness ==
    \E b \in WallIds, v \in WallIds :
        /\ b # v
        /\ TypeOf(b) = "bomb"
        /\ Overlaps(wallObj[b], wallObj[v])
        /\ wallDestroyed[b] = 1
        /\ wallDestroyed[v] = 1
        /\ {b, v} \subseteq removedBodies
        /\ staggerTimers = {}

\* C2: _detachWall on a wall that is already detached returns false and
\* changes nothing; the first call returns true and lowers the number of
\* active walls by exactly one, so two calls leave the count of one call;
\* _removeWall on a detached wall raises no notification.
C2_DetachIdempotent ==
    [][/\ (lastCall'.op = "detach" /\ lastCall'.wall \in removedBodies) =>
            /\ lastCall'.ret = FALSE
            /\ UNCHANGED handlerVars
       /\ (lastCall'.op = "detach" /\ lastCall'.wall \notin removedBodies) =>
            /\ lastCall'.ret = TRUE
            /\ Cardinality(walls') = Cardinality(walls) - 1
            /\ walls' = walls \ {lastCall'.wall}
       /\ (lastCall'.op = "remove" /\ lastCall'.wall \in removedBodies) =>
            UNCHANGED handlerVars]_vars

\* The last call was a _detachWall that found the wall detached.
C2_Witness ==
    /\ lastCall.op = "detach"
    /\ lastCall.ret = FALSE
    /\ lastCall.wall \in removedBodies
    /\ lastCall.wall \notin walls

\* C3: a collision callback that names the body of a wall detached earlier
\* adds no queue entry, detaches nothing and raises no notification.
C3_NoGhostCollisions ==
    [][\A c \in contacts' \ contacts :
          c[2] \in removedBodies =>
              /\ UNCHANGED managerVars
              /\ UNCHANGED scoringVars]_vars

\* In the first frame, in a sub-step after the first, a callback has named a
\* body that the processRemovals of an earlier sub-step detached.
C3_Witness ==
    /\ pc = "instep"
    /\ frames = 1
    /\ steps >= 1
    /\ \E c \in contacts : c[2] \in removedBodies /\ c[2] \notin worldBodies

\* C4: inside World.step (the collision callbacks) the active list, the
\* detached set and the bodies of the world do not change; queueRemoval is a
\* no-op for a detached or removing wall, and otherwise sets the flag and
\* appends one entry.  A body is detached only by the between-step callback.
C4_QueueRemovalIsNotStructural ==
    [][/\ (pc = "instep" /\ pc' = "instep") =>
            /\ UNCHANGED <<walls, removedBodies, worldBodies>>
            /\ \A c \in contacts' \ contacts :
                 IF c[2] \in removedBodies \/ c[2] \in removing \/ c[2] \notin walls
                 THEN UNCHANGED <<removing, wallRemovalQueue>>
                 ELSE /\ removing' = removing \cup {c[2]}
                      /\ wallRemovalQueue' = Append(wallRemovalQueue, c[2])
       /\ (removedBodies' \ removedBodies # {}) => (pc = "between" /\ pc' = "loop")]_vars

\* World.step is running, a callback has queued a wall, and the wall is
\* still in the active list and in the world.
C4_Witness ==
    /\ pc = "instep"
    /\ \E c \in contacts :
        /\ c[2] \in Queued
        /\ c[2] \in removing
        /\ c[2] \in walls
        /\ c[2] \in worldBodies

\* C5: whenever a sub-step may begin (the loop test of update, or the next
\* frame), the removal queue is empty and no wall marked removing has its
\* collider in the world.
C5_CleanAtSubstepStart ==
    pc \in {"loop", "idle"} =>
        /\ wallRemovalQueue = <<>>
        /\ removing \cap worldBodies = {}

\* A further sub-step can begin after one whose queued wall was detached.
C5_Witness ==
    /\ pc = "loop"
    /\ steps >= 1
    /\ steps < MaxSubsteps
    /\ removing \cap removedBodies # {}

\* C6: processRemovals returns with an empty queue and with every wall that
\* was queued detached from the world and from the active list.
C6_ProcessRemovalsDrains ==
    [][(pc = "between" /\ pc' = "loop") =>
          /\ wallRemovalQueue' = <<>>
          /\ \A w \in Queued :
                /\ w \notin walls'
                /\ w \notin worldBodies'
                /\ w \in removedBodies']_vars

\* Two walls, neither a bomb, were queued in the first sub-step and both are
\* detached after its processRemovals.
C6_Witness ==
    /\ pc = "loop"
    /\ frames = 1
    /\ steps = 1
    /\ wallRemovalQueue = <<>>
    /\ Cardinality(removedBodies) >= 2
    /\ \A w \in removedBodies : TypeOf(w) # "bomb" /\ wallDestroyed[w] = 1

\* C7: when destruction empties the active list, onAllCleared is raised
\* exactly once: the level grows by one and one population is scheduled.
C7_ClearedExactlyOnce ==
    [][(pc = "between" /\ walls # {} /\ walls' = {}) =>
          /\ allCleared' = allCleared + 1
          /\ level' = level + 1
          /\ nextLevelTimers' = nextLevelTimers + 1]_vars

\* C8: no ball's velocity is changed by a collision callback, that is,
\* while World.step is running.
C8_NoEffectInsideCallback ==
    [][(pc = "instep" /\ pc' = "instep") =>
          /\ ballSpeed' = ballSpeed
          /\ extraBalls' = extraBalls]_vars

\* C9: a collision callback that names a wall that is removing or detached
\* changes no ball's velocity.
C9_RemovingWallHasNoEffect ==
    [][\A c \in contacts' \ contacts :
          c[2] \in removing \cup removedBodies =>
              /\ ballSpeed' = ballSpeed
              /\ extraBalls' = extraBalls]_vars

\* C10: a victim of a bomb whose stagger timer is pending is already out of
\* the world and of the active list and has been notified neither as
\* destroyed nor as a power-up; its notifications come from its timer.
C10_VictimsDetachedBeforeNotified ==
    \A w \in staggerTimers :
        /\ w \notin worldBodies
        /\ w \notin walls
        /\ wallDestroyed[w] = 0
        /\ powerUpTriggered[w] = 0

\* The bomb has been notified, its victim is detached and waits for its
\* timer while the frame goes on.
C10_Witness ==
    /\ pc = "loop"
    /\ \E b \in removedBodies, v \in staggerTimers :
        /\ TypeOf(b) = "bomb"
        /\ wallDestroyed[b] = 1
        /\ v \in removedBodies
        /\ v \notin worldBodies
        /\ wallDestroyed[v] = 0

C13_ComboFinalizedOnceWithN ==
    (comboLog.close /\ comboLog.n >= 1) =>
        /\ Len(comboLog.finalized) <= 1
        /\ comboLog.finalized # <<>> => comboLog.finalized[1] = comboLog.n
        /\ now > comboLog.last + SETTLE_DELAY => Len(comboLog.finalized) = 1

\* C14: every wallDestroyed notification, whatever the type of the wall,
\* adds one to the combo count and restarts the settle timer.
C14_EveryNotificationCounts ==
    [][comboLog'.n = comboLog.n + 1 =>
          /\ combo' = combo + 1
          /\ comboTimer'
          /\ comboDue' = now + SETTLE_DELAY]_vars

\* C15: when the settle timer fires with count c, the bonus of the
\* threshold with the largest min that is at most c is added once to the
\* score and to the shots (nothing when c is below every min), the count
\* returns to 0 and the timer is spent.
C15_HighestTierOnce ==
    [][Len(comboLog'.finalized) = Len(comboLog.finalized) + 1 =>
        LET reached == {i \in 1..Len(THRESHOLDS) : THRESHOLDS[i].min <= combo}
            best == CHOOSE i \in reached :
                        \A j \in reached : THRESHOLDS[j].min <= THRESHOLDS[i].min
        IN /\ combo' = 0
           /\ ~comboTimer'
           /\ score' = score + (IF reached = {} THEN 0 ELSE THRESHOLDS[best].points)
           /\ shotsRemaining' =
                shotsRemaining + (IF reached = {} THEN 0 ELSE THRESHOLDS[best].shots)]_vars

\* A combo of eight was finalized: the top tier was paid once.
C15_Witness ==
    /\ comboLog.finalized = <<8>>
    /\ combo = 0
    /\ ~comboTimer
    /\ score = 8 + 20
    /\ shotsRemaining = BASE_SHOTS - 1 + 2

\* C16: the stepDt of an iteration, times the planar speed it was computed
\* from, is at most BULLET_SAFE_DISTANCE whenever stepDt is above
\* MIN_STEP_DT; the displacement exceeds the safe distance only with stepDt
\* at MIN_STEP_DT and a speed above BULLET_SAFE_DISTANCE / MIN_STEP_DT; at
\* speed 0 the step is DT.
C16_StepWithinSafeDistance ==
    (pc = "loop" /\ steps >= 1) =>
        /\ stepDt >= MIN_STEP_DT /\ stepDt <= DT
        /\ stepDt > MIN_STEP_DT => stepDt * ballSpeed <= BULLET_SAFE_DISTANCE * TimeUnit
        /\ stepDt * ballSpeed > BULLET_SAFE_DISTANCE * TimeUnit =>
              /\ stepDt = MIN_STEP_DT
              /\ ballSpeed * MIN_STEP_DT > BULLET_SAFE_DISTANCE * TimeUnit
        /\ ballSpeed = 0 => stepDt = DT

\* A step strictly between MIN_STEP_DT and DT that covers exactly the safe
\* distance.
C16_Witness ==
    /\ pc = "loop"
    /\ steps >= 1
    /\ stepDt > MIN_STEP_DT
    /\ stepDt < DT
    /\ stepDt * ballSpeed = BULLET_SAFE_DISTANCE * TimeUnit

\* C17: the time stepped plus the accumulator equals the time added, and
\* the accumulator is never negative.
C17_TimeConservedNonNegative ==
    /\ stepLog.stepped + accumulator = stepLog.added
    /\ accumulator >= 0

\* C18: over any sequence of frames the accumulator stays below a fixed
\* constant: below DT + MAX_FRAME_DELTA, and below DT between two calls.
C18_AccumulatorBounded ==
    /\ accumulator < DT + MAX_FRAME_DELTA
    /\ pc = "idle" => accumulator < DT

\* A stall was clamped to MAX_FRAME_DELTA on top of time carried over from
\* the frame before.
C18_Witness ==
    /\ pc = "loop"
    /\ steps = 0
    /\ frames >= 2
    /\ accumulator > MAX_FRAME_DELTA

\* C19: one call of update makes at most MAX_SUBSTEPS calls of World.step.
C19_AtMostMaxSubsteps ==
    steps <= MAX_SUBSTEPS

\* The ceiling ended the loop with time for more steps left.
C19_Witness ==
    /\ pc = "idle"
    /\ steps = MAX_SUBSTEPS
    /\ accumulator >= DT

\* C20: a stagger timer that fires after its walls were cleared (its wall
\* is no longer in the detached set), and a settle timer that fires right
\* after createWalls, returnToHome or startGame, raise no wallDestroyed or
\* power-up notification and change neither the score, the combo count,
\* the shots nor the extra balls.
C20_StaleTimersHaveNoEffect ==
    [][((lastCall'.op = "timer" /\ lastCall'.wall \notin removedBodies)
        \/ (lastCall'.op = "finalizeCombo"
            /\ lastCall.op \in {"createWalls", "returnToHome", "startGame"}))
       => UNCHANGED <<wallDestroyed, powerUpTriggered, score, combo,
                      shotsRemaining, extraBalls>>]_vars

\* C21: right after clear (run by createWalls, by startGame through
\* createWalls and by returnToHome through clearAll) the removal queue and
\* the detached set are empty, the active walls are only those createWalls
\* has just made (none after clearAll), and no body of an earlier population
\* is in the physics world.
C21_ClearLeavesNothing ==
    lastCall.op \in {"createWalls", "startGame", "returnToHome"} =>
        /\ wallRemovalQueue = <<>>
        /\ removedBodies = {}
        /\ walls = (IF lastCall.op = "returnToHome" THEN {} ELSE NewIds(pops - 1))
        /\ worldBodies = walls

\* a population is replaced while a victim of a bomb of the old one still
\* waits for its timer: walls were detached, and others active, before
C21_Witness ==
    /\ lastCall.op = "createWalls"
    /\ staggerTimers # {}
    /\ removedBodies = {}
    /\ worldBodies = NewIds(pops - 1)

\* C22: while a sub-step of a frame is entered or running, nothing of that
\* frame's combo bookkeeping or velocity effects has happened yet.  Stated
\* for the first frame of a game, which starts with a combo count of 0 and
\* no settle timer: at every sub-step of it the count is still 0, no settle
\* timer is pending and no step taken inside World.step changes a velocity.
C22_BookkeepingAfterLastSubstep ==
    [][(pc' = "instep" /\ frames' = 1) =>
          /\ combo' = 0
          /\ ~comboTimer'
          /\ ballSpeed' = ballSpeed
          /\ extraBalls' = extraBalls]_vars

\* C23: when World.step returns from a step in which a ball touched walls
\* of the world that are all sticky, that ball's planar speed is 0.
C23_StickyStopsBall ==
    [][(pc = "instep" /\ pc' = "between") =>
          \A b \in 0..Len(extraBalls) :
              LET hit == {c[2] : c \in {d \in contacts : d[1] = b}}
              IN (hit # {} /\ hit \subseteq worldBodies
                  /\ \A w \in hit : TypeOf(w) = "sticky")
                 => (IF b = 0 THEN ballSpeed' ELSE extraBalls'[b].speed) = 0]_vars

\* C24: the step that clears a level after a shot (onAllCleared runs
\* nextLevel) leaves the player no fewer shots than they had: at least the
\* shots before the step plus those the extra-shot walls destroyed in the
\* step have granted.
C24_UnusedShotsCarryOver ==
    [][(allCleared' > allCleared /\ shotsFired > 0) =>
          shotsRemaining' >= shotsRemaining + EXTRA_SHOT_SHOTS *
              Cardinality({w \in WallIds :
                  /\ TypeOf(w) = "extraShot"
                  /\ powerUpTriggered'[w] > powerUpTriggered[w]})]_vars

\* C25: a shot lowers shotsRemaining by exactly 1, and extra balls cost
\* nothing: spawnExtraBalls, clearExtraBalls, the steps of World.step, the
\* collide listener of an extra ball on a wall that grants nothing, and the
\* end of the frame (updateExtraBalls) leave shotsRemaining as it was, as
\* does a removal step that spawns extra balls without clearing the level
\* or triggering an extra-shot wall.
C25_ShotCostsOneExtraBallsFree ==
    [][/\ shotsFired' # shotsFired => shotsRemaining' = shotsRemaining - 1
       /\ spawnExtraBalls(Cur).shots = shotsRemaining
       /\ clearExtraBalls(Cur).shots = shotsRemaining
       /\ pc = "instep" => shotsRemaining' = shotsRemaining
       /\ (pc = "loop" /\ pc' = "idle") => shotsRemaining' = shotsRemaining
       /\ (/\ Len(extraBalls') > Len(extraBalls)
           /\ allCleared' = allCleared
           /\ \A w \in WallIds : TypeOf(w) = "extraShot" =>
                  powerUpTriggered'[w] = powerUpTriggered[w])
          => shotsRemaining' = shotsRemaining]_vars

\* after one shot a multi-ball wall was destroyed, its extra ball has been
\* spawned, stepped and removed at the end of a frame, and the player has
\* paid for the shot only
C25_Witness ==
    /\ shotsFired = 1
    /\ \E w \in WallIds : TypeOf(w) = "multiBall" /\ powerUpTriggered[w] = 1
    /\ \A w \in WallIds : TypeOf(w) = "extraShot" => powerUpTriggered[w] = 0
    /\ extraBalls = <<>>
    /\ allCleared = 0
    /\ pc = "idle"
    /\ shotsRemaining = BASE_SHOTS - 1

\* C26: a frame less than the sleep-time limit after the last one removes
\* none of the extra balls if each of them was at or above the sleep speed
\* limit at the last frame and has not reached the hard timeout.
C26_RemovedOnlyAfterSleepTime ==
    [][(/\ now' > now
        /\ now' - now < BALL_SLEEP_TIME_LIMIT
        /\ \A i \in 1..Len(extraBalls) :
              /\ ~stopped(extraBalls[i])
              /\ now' - extraBalls[i].spawnTime <= MULTI_BALL_TIMEOUT)
       => Len(extraBalls') = Len(extraBalls)]_vars

\* C27: an extra ball that is still there between two frames was spawned no
\* longer than the hard timeout ago, and every extra ball is eventually
\* removed.
C27_EveryExtraBallRemoved ==
    /\ [](\A i \in 1..Len(extraBalls) :
             now - extraBalls[i].spawnTime <= MULTI_BALL_TIMEOUT)
    /\ \A t \in SpawnInstants :
          (\E i \in 1..Len(extraBalls) : extraBalls[i].spawnTime = t)
              ~> (\A i \in 1..Len(extraBalls) : extraBalls[i].spawnTime # t)

\* a frame has removed, by the timeout, a ball that was not stopped
C27_Witness ==
    /\ lastCall.op = "updateExtraBalls"
    /\ lastCall.ret
    /\ extraBalls = <<>>
    /\ now > MULTI_BALL_TIMEOUT

\* C28: every extra ball starts with a planar speed above 0 (no less than
\* the minimum spawn speed), whatever the speed of the main ball.
C28_SpawnedBallsMove ==
    [][\A i \in 1..Len(extraBalls') :
          i > Len(extraBalls) => extraBalls'[i].speed >= MIN_SPAWN_SPEED
                                 /\ extraBalls'[i].speed > 0]_vars

\* an extra ball has been spawned while the main ball was at rest
C28_Witness ==
    /\ lastCall.op = "spawnExtraBalls"
    /\ ballSpeed = 0
    /\ extraBalls # <<>>
    /\ extraBalls[Len(extraBalls)].speed = MIN_SPAWN_SPEED

\* C29: a shot leaves the combo count at 0 and no settle timer pending, and
\* from then on the count, together with all the counts finalized since,
\* never exceeds the number of walls destroyed since the shot; a timer is
\* pending after the shot only if a wall was destroyed after it.
C29_ShotDiscardsCombo ==
    /\ [][shotsFired' > shotsFired => combo' = 0 /\ ~comboTimer']_vars
    /\ [](shotsFired > 0 =>
            /\ comboTimer => comboLog.n > 0
            /\ combo <= comboLog.n
            /\ \A k \in 1..Len(comboLog.finalized) :
                  comboLog.finalized[k] <= comboLog.n)

\* a shot was taken while three walls made a combo whose timer was pending:
\* the timer is gone before its due time and no bonus was added to the score
C29_Witness ==
    /\ shotsFired = 1
    /\ \A w \in walls : TypeOf(w) = "normal"
    /\ score = MaxPreShot
    /\ comboLog = NoComboLog
    /\ now < comboDue
    /\ ~comboTimer
    /\ combo = 0

\* C30: right after createWalls, every wall of the new population whose
\* placement loop ended before its attempts were used up has its segment at
\* least BALL_SPAWN_CLEARANCE away from where the ball is.
C30_WallsClearOfBall ==
    lastCall.op \in {"startGame", "createWalls"} =>
        \A w \in walls :
            spawnAttempts[w] < MaxAttempts => farEnough(wallObj[w], ballPos)

\* C31: right after createWalls at a level, the active walls are exactly
\* BASE_WALL_COUNT + (level - 1) * WALLS_PER_LEVEL, each has its collider in
\* the world and none has its removing flag set.
C31_FullPopulation ==
    lastCall.op = "createWalls" =>
        /\ Cardinality(walls) = BASE_WALL_COUNT + (level - 1) * WALLS_PER_LEVEL
        /\ worldBodies = walls
        /\ walls \cap removing = {}

\* a second population, of level 2, made while walls of the first were
\* queued with their flag set and others still active
C31_Witness ==
    /\ lastCall.op = "createWalls"
    /\ pops = 2
    /\ level = 2
    /\ Cardinality(walls) = 14
    /\ \A w \in walls : w > wallCount(MaxLevel)

\* C32: for any two walls of a layout the overlap test of the sweep gives
\* the same answer in both directions, and every wall overlaps itself.
C32_OverlapSymmetricReflexive ==
    \A a, b \in LayoutWalls :
        (wallObj[a].type # "none" /\ wallObj[b].type # "none") =>
            /\ Overlaps(wallObj[a], wallObj[b]) = Overlaps(wallObj[b], wallObj[a])
            /\ Overlaps(wallObj[a], wallObj[a])

\* a bomb has swept a wall that lies across it, and spared another
C32_Witness ==
    \E a, b, c \in LayoutWalls :
        /\ TypeOf(a) = "bomb"
        /\ a \in removedBodies
        /\ b \in staggerTimers
        /\ wallObj[a].rot # wallObj[b].rot
        /\ Overlaps(wallObj[a], wallObj[b])
        /\ Overlaps(wallObj[b], wallObj[a])
        /\ c \in walls
        /\ ~Overlaps(wallObj[a], wallObj[c])
        /\ ~Overlaps(wallObj[c], wallObj[a])

\* C33: once the catch block of animate has handled an exception, no later
\* call of animate runs a physics step, processes removals or changes the
\* state of the game.
C33_ErrorStopsTheLoop ==
    [][(criticalError /\ lastCall'.op = "animate")
       => UNCHANGED <<steps, handlerVars>>]_vars

\* C34: the frame that declares game over finds no settle timer pending
\* whose combo, finalized, would add bonus shots.
C34_NoBonusShotsLost ==
    [][gameOverCalls' > gameOverCalls
       => ~(comboTimer /\ finalizeCombo(Cur).shots > shotsRemaining)]_vars

\* C35: the frame that calls gameOver leaves no shot, at least one active
\* wall and no extra ball, and is the last of SleepFrames frames in a row
\* that left the main ball below the sleep speed limit.
C35_GameOverOnlyWhenSettled ==
    [][gameOverCalls' > gameOverCalls =>
        /\ shotsRemaining' <= 0
        /\ walls' # {}
        /\ lastCall'.ret
        /\ ballSpeed' < BALL_SLEEP_SPEED_LIMIT
        /\ slowRun' >= SleepFrames]_vars

\* C39: in a game in play with no shot left, an active wall, no extra ball
\* and the main ball below the sleep speed limit, with SleepFrames frames
\* still to come, game over is declared unless one of these ceases to hold;
\* gameOver is called only when the game is not over yet, and a game that is
\* over stays so until startGame.
C39_Exhausted ==
    /\ isPlaying /\ ~isGameOver
    /\ shotsRemaining <= 0
    /\ walls # {}
    /\ extraBalls = <<>>
    /\ ballSpeed < BALL_SLEEP_SPEED_LIMIT

C39_GameOverOnce ==
    /\ (C39_Exhausted /\ now + SleepFrames * ShortGap <= MaxOverNow)
          ~> (isGameOver \/ ~C39_Exhausted)
    /\ [][gameOverCalls' > gameOverCalls => ~isGameOver]_vars
    /\ [][(isGameOver /\ ~isGameOver') => lastCall'.op = "startGame"]_vars

\* game over was declared SleepFrames frames after the ball had stopped, and
\* frames have run since without declaring it again
C39_Witness ==
    /\ isGameOver /\ isPlaying
    /\ gameOverCalls = 1
    /\ lastCall.op = "animate"
    /\ ballSettledTime = SleepFrames
    /\ slowRun = SleepFrames
    /\ shotsRemaining <= 0 /\ walls # {}

\* C36: while the game is over, nothing but startGame changes the score,
\* the shots or the level.
C36_FrozenAfterGameOver ==
    [][(isGameOver /\ lastCall'.op # "startGame")
       => UNCHANGED <<score, shotsRemaining, level>>]_vars

C38_ShotsNeverNegative ==
    /\ [](shotsRemaining >= 0)
    /\ [][lastCall'.op = "onShoot"
          => (shotsRemaining > 0 /\ isPlaying /\ ~isGameOver)]_vars

\* the bonus shot of a combo has been fired by a touch, after the last shot
C38_Witness ==
    /\ lastCall.op = "onShoot"
    /\ lastCall.wall \in TouchIds
    /\ shotsFired = 2
    /\ shotsRemaining = 0
    /\ level = 1
    /\ ~isAiming

\* C40: the world holds at most one wall contact material for each
\* behaviour, and only those made for the latest population, which are the
\* ones wallContactMaterials lists.
C40_NoMaterialAccumulation ==
    /\ \A i, j \in DOMAIN WorldWallMaterials :
           WorldWallMaterials[i].behavior = WorldWallMaterials[j].behavior => i = j
    /\ \A i \in DOMAIN WorldWallMaterials : WorldWallMaterials[i].pop = pops
    /\ WorldWallMaterials = wallContactMaterials
    /\ ballTableContact \in {contactmaterials[i] : i \in DOMAIN contactmaterials}

\* the last population of a run has replaced the materials of the ones
\* before it
C40_Witness ==
    /\ pops = MaxMaterialPops
    /\ lastCall.op = "createWalls"
    /\ Len(contactmaterials) = 1 + Len(WALL_BEHAVIORS)
    /\ materialIds = 1 + MaxMaterialPops * Len(WALL_BEHAVIORS)
    /\ walls # {}

====
